---- MODULE Spec2Model ----
(***************************************************************************)
(* The recording state machine of splat-replay (src/src/recorder.py):      *)
(* Recorder.run pulls one frame per iteration, runs the power-state        *)
(* supervision (_check_switch_power_status) and then the handler of the    *)
(* resulting state (_handle_wait_status, _handle_record_status,            *)
(* _handle_pause_status).                                                  *)
(*                                                                         *)
(* A frame is modelled by the outputs the Analyzer predicates give on it.  *)
(* The code stores the absolute times _last_power_check_time and           *)
(* _record_start_time and only ever reads their distance to time.time();   *)
(* the model stores these distances (since_power_check, record_time),      *)
(* clipped just above the thresholds they are compared with.               *)
(***************************************************************************)
EXTENDS Integers, Sequences, FiniteSets, TLC

\* ------------------------------------------------------------ constants

\* recorder.py:146   time.time() - self._last_power_check_time < 10
PowerCheckInterval == 10
\* recorder.py:155   self._power_off_count >= 3
PowerOffThreshold == 3
\* recorder.py:215   record_time > 600
RecordTimeout == 600
\* recorder.py:221   record_time < 90
AbortWindow == 90

\* ------------------------------------------------------------ bounds

\* Frames read after the stop flag was set are counted up to this number.
MaxLateFrames == 2

\* _power_off_count grows without limit while the console stays off; frames
\* that would push it past this bound are not fed.
MaxPowerOffCount == 4

\* Seconds that may pass while capture.read() blocks for the next frame.
Ticks == {0, 90, 600}

\* Readings of datetime.datetime.now(); 0 stands for None.
NoTime == 0
Stamps == {1, 2}

\* The times Obs.extract_start_datetime (wrapper/obs.py:19-35) reads in the
\* name of an output file; it answers None (NoTime) for a name that is not
\* of the form "%Y-%m-%d %H-%M-%S".
PathStamps == {3}

\* ------------------------------------------------------------ values

\* RecordStatus (recorder.py:22-26)
OFF == "OFF"
WAIT == "WAIT"
RECORD == "RECORD"
PAUSE == "PAUSE"
RecordStatus == {OFF, WAIT, RECORD, PAUSE}

\* models/rate.py: a rating is an XP (numeric) or an Udemae (rank).  The value
\* of an XP is its float xp in tenths (the X power is shown and read with one
\* decimal); the value of an Udemae is the index of its label in RANK_ORDER.
\* NoRate stands for None.
NoRate == [kind |-> "None", value |-> 0]
XP(v) == [kind |-> "XP", value |-> v]
Udemae(rank) == [kind |-> "Udemae", value |-> rank]
Rates == {XP(20000), XP(25000), Udemae(9)}

\* battle_result.py:7-19: the accumulator; "None", NoTime, NoRate and -1 stand
\* for an unset field.
EmptyBattleResult ==
    [start |-> NoTime, battle |-> "None", rule |-> "None", stage |-> "None",
     result |-> "None", kill |-> -1, death |-> -1, special |-> -1,
     rate |-> NoRate]

Outcomes == {"WIN", "LOSE"}

\* The screens the capture can deliver: every screen of this model ("full"),
\* or those of a plain playthrough ("plain"), which shows no rating, no
\* schedule change and no defeat, in which the clock is read at one instant
\* and the final frame shows all labels.
Feeds == {"full", "plain"}
RatesOf(fd) == IF fd = "plain" THEN {} ELSE Rates
OutcomesOf(fd) == IF fd = "plain" THEN {"WIN"} ELSE Outcomes
StampsOf(fd) == IF fd = "plain" THEN {1} ELSE Stamps
\* Whether Uploader.queue raises: in a plain playthrough it does not.
QueueOutcomesOf(fd) == IF fd = "plain" THEN {FALSE} ELSE BOOLEAN

\* ------------------------------------------------------------ frames

\* The Analyzer's outputs on a frame that shows nothing.
NeutralFrame ==
    [power_off |-> FALSE, virtual_camera_off |-> FALSE,
     change_schedule |-> FALSE, rate |-> NoRate, matching_start |-> FALSE,
     battle_start |-> FALSE, battle_abort |-> FALSE, battle_finish |-> FALSE,
     battle_result |-> "None", right_top_black |-> FALSE, loading |-> FALSE,
     battle_stop |-> FALSE]

\* analyzer.py:203-207: battle_result is None on a loading screen.
ConsistentFrame(f) == f.loading => f.battle_result = "None"

\* analyzer.py:209-214
battle_result_latter_half(f) == f.right_top_black /\ f.battle_result # "None"

\* What the power supervision reads.
PowerFrames(base) ==
    {[base EXCEPT !.power_off = po, !.virtual_camera_off = vc] :
        po \in BOOLEAN, vc \in BOOLEAN}

\* What a frame given to _handle_wait_status can show, from feed fd with
\* accumulator br: the rating and the matching-start signal are read only
\* while br.start is unset (recorder.py:188); the battle-start signal may be
\* on any frame, read or not.
WaitFrames(br, fd) ==
    {[NeutralFrame EXCEPT !.change_schedule = cs, !.rate = r,
                          !.matching_start = ms, !.battle_start = bs] :
        cs \in (IF fd = "plain" THEN {FALSE} ELSE BOOLEAN),
        r \in (IF br.start = NoTime THEN RatesOf(fd) \cup {NoRate} ELSE {NoRate}),
        ms \in (IF br.start = NoTime THEN BOOLEAN ELSE {FALSE}),
        bs \in BOOLEAN}

\* What _handle_record_status can read from feed fd with accumulator br: the
\* finish banner
\* and the outcome are read only while br.result is unset (recorder.py:227),
\* the loading screen and the stop signal only once it is set.
RecordFrames(br, fd) ==
    {f \in {[NeutralFrame EXCEPT !.battle_abort = ab, !.battle_finish = fi,
                                 !.battle_result = o, !.loading = lo,
                                 !.battle_stop = sp] :
               ab \in BOOLEAN,
               fi \in (IF br.result = "None" THEN BOOLEAN ELSE {FALSE}),
               o \in (IF br.result = "None"
                      THEN OutcomesOf(fd) \cup {"None"} ELSE {"None"}),
               lo \in (IF br.result = "None" THEN {FALSE} ELSE BOOLEAN),
               sp \in (IF br.result = "None" THEN {FALSE} ELSE BOOLEAN)} :
        ConsistentFrame(f)}

\* What the stored resume predicate res reads from feed fd
\* (recorder.py:231-232, 244).
PauseFrames(res, fd) ==
    {f \in {[NeutralFrame EXCEPT !.right_top_black = rt, !.battle_result = o,
                                 !.loading = lo] :
               rt \in (IF res = "finish" THEN BOOLEAN ELSE {FALSE}),
               o \in (IF res = "finish" THEN OutcomesOf(fd) \cup {"None"} ELSE {"None"}),
               lo \in (IF res = "loading" THEN BOOLEAN ELSE {FALSE})} :
        ConsistentFrame(f)}

\* What the model keeps of the frame f processed by an iteration that
\* dispatched to the handler of state st: the power fields (neutral when no
\* power check was due), the signal that st's handler reads first, and what
\* the resume predicates read (right_top_black is neutral on the frames of
\* every handler but that of PAUSE).
Noted(f, st) ==
    IF st = "PAUSE" THEN f
    ELSE [NeutralFrame EXCEPT
            !.power_off = f.power_off,
            !.virtual_camera_off = f.virtual_camera_off,
            !.change_schedule = (st = "WAIT" /\ f.change_schedule),
            !.battle_start = (st = "WAIT" /\ f.battle_start),
            !.battle_abort = (st = "RECORD" /\ f.battle_abort),
            !.loading = f.loading]

\* What the handler of state st (the state the power supervision left) can
\* read on a frame of feed fd, with accumulator br and resume predicate res;
\* no handler reads a frame in OFF (recorder.py:123-133).
FramesFor(st, br, res, fd) ==
    CASE st = "WAIT" -> WaitFrames(br, fd)
      [] st = "RECORD" -> RecordFrames(br, fd)
      [] st = "PAUSE" -> PauseFrames(res, fd)
      [] OTHER -> {NeutralFrame}

\* The seconds capture.read() may take.  record_time is read only by
\* _handle_record_status, and every entry into RECORD from WAIT resets it
\* (_start_record), so outside RECORD and PAUSE only the power-check interval
\* matters.
TicksFor(st) ==
    IF st \in {"RECORD", "PAUSE"} THEN Ticks ELSE {0, PowerCheckInterval}

\* ------------------------------------------------------------ state

VARIABLES
    feed,                     \* the screens the capture delivers (see Feeds)
    is_recording_mode,        \* Recorder.is_recording_mode (recorder.py:34)
    status,                   \* the local status of Recorder.run
    battle_result,            \* self._battle_result
    record_time,              \* time.time() - self._record_start_time
    since_power_check,        \* time.time() - self._last_power_check_time
    power_off_count,          \* self._power_off_count
    should_resume_recording,  \* self._should_resume_recording: "None",
                              \* "finish" (recorder.py:231) or "loading" (:244)
    stopped,                  \* GracefulThread._stop_event
    alive,                    \* Recorder.run has not returned
    frame,                    \* what the latest iteration's frame showed
                              \* (see Noted)
    current_status,           \* the state the latest iteration started in
                              \* ("None": the latest step was no iteration)
    checked,                  \* the latest iteration made a power check
    handled,                  \* the state the power supervision left, whose
                              \* handler the latest iteration dispatched to
    calls,                    \* the calls the latest step made, in order:
                              \* to the collaborators, to _cancel_record and
                              \* _stop_record, and to BattleResult()
    handoff,                  \* the accumulators it gave to Uploader.queue
    negative_checks,          \* the latest power checks that read no
                              \* power-off, counted up to PowerOffThreshold
    positive_checks,          \* the latest power checks that read power-off
    scenario,                 \* the scripted run (see Scripts): its name, the
                              \* number of its frames fed so far, the
                              \* accumulators handed to Uploader.queue so
                              \* far, and the start time the accumulator held
                              \* after the matching-start frame
    frames_after_stop,        \* the frames capture.read() delivered after the
                              \* stop flag was set, counted up to MaxLateFrames
    evaluation,               \* a function of the program applied on its own:
                              \* its name, its arguments, whether it has been
                              \* applied, and what it returned or raised
    transcriber,              \* a Transcriber run on its own: its fields, its
                              \* threads, and where its caller is
    obs,                      \* the output state of the recording backend:
                              \* outputActive and outputPaused
                              \* (wrapper/obs.py:184-186)
    seen_on                   \* a power check since run began, or since the
                              \* latest entry into OFF, read no power-off

vars == <<feed, is_recording_mode, status,
          battle_result, record_time, since_power_check, power_off_count,
          should_resume_recording, stopped, alive, frame, current_status,
          checked, handled,
          calls, handoff, negative_checks, positive_checks, scenario,
          frames_after_stop, evaluation, transcriber, obs, seen_on>>

\* self._transcriber is not None (recorder.py:89-103): a microphone is
\* configured, so the transcriber exists exactly in recording mode.
has_transcriber == is_recording_mode

\* self._power_off_callback is not None: the owner registered the callback
\* (register_power_off_callback, recorder.py:105-106) before starting run.
power_off_callback == TRUE

Clip(t, cap) == IF t > cap THEN cap ELSE t

\* What a function applied on its own returns or raises: the exception
\* ("None": it returned), the ratings, the numbers and the truth value of
\* the returned value.
Out(raised, rates, nums, flag) ==
    [raised |-> raised, rates |-> rates, nums |-> nums, flag |-> flag]

NoOut == Out("None", <<>>, <<>>, FALSE)

\* No function is applied on its own.
NoEvaluation == [fn |-> "none", args |-> <<>>, applied |-> FALSE, out |-> NoOut]

\* A thread of the Transcriber: where it is in its loop, and the audio it
\* holds (0: none).
TranscriberThread(pc, item) == [pc |-> pc, item |-> item]

\* Transcriber.__init__ (transcriber.py:35-49); recording and recognition are
\* the threads created so far, the last of each being _recording_thread and
\* _recognition_thread; caller is where the thread that commands the
\* transcriber is and call the command it is in, returned the command that
\* returned last, captured the number of audio items listened to so far,
\* sessions the number of start() calls made when each item was listened to,
\* transcript the segments the latest get_srt() formatted.
Transcriber_init ==
    [recording_event |-> FALSE, is_paused |-> FALSE, audio_queue |-> <<>>,
     segments |-> <<>>, recording |-> <<>>, recognition |-> <<>>,
     caller |-> "idle", returned |-> "None", captured |-> 0,
     sessions |-> <<>>, call |-> "None", transcript |-> <<>>]

\* The backend is not recording when the recorder is constructed.
Obs_init == [active |-> FALSE, paused |-> FALSE]

\* ------------------------------------------------------------ Init

\* Recorder.__init__ (recorder.py:30-49) and the first line of run (:111),
\* in recording mode, in front of feed fd.
InitWith(fd) ==
    /\ feed = fd
    /\ is_recording_mode = TRUE
    /\ status = OFF
    /\ battle_result = EmptyBattleResult
    /\ record_time = 0
    /\ since_power_check = PowerCheckInterval
    /\ power_off_count = 0
    /\ should_resume_recording = "None"
    /\ stopped = FALSE
    /\ alive = TRUE
    /\ frame = NeutralFrame
    /\ current_status = "None"
    /\ checked = FALSE
    /\ handled = "None"
    /\ calls = <<>>
    /\ handoff = <<>>
    /\ negative_checks = 0
    /\ positive_checks = 0
    /\ frames_after_stop = 0
    /\ evaluation = NoEvaluation
    /\ transcriber = Transcriber_init
    /\ obs = Obs_init
    /\ seen_on = FALSE

\* No script: the frames are drawn from the feed.
Unscripted == [name |-> "none", fed |-> 0, queued |-> <<>>, matched_at |-> NoTime]

Init == InitWith("full") /\ scenario = Unscripted

\* ------------------------------------------------------------ helpers

\* A finally block that releases the frame source only.
ReleaseCalls_CaptureOnly == <<"capture.release">>

\* The finally block of run (recorder.py:138-142).
ReleaseCalls ==
    <<"capture.release">> \o (IF is_recording_mode THEN <<"obs.close">> ELSE <<>>)

\* A handler returns st: the iteration ends and the loop goes on.
Return(st, br, rt, res, cs, ho) ==
    /\ status' = st
    /\ battle_result' = br
    /\ record_time' = rt
    /\ should_resume_recording' = res
    /\ calls' = cs
    /\ handoff' = ho
    /\ alive' = TRUE

\* A handler raises: run logs the exception and releases (recorder.py:135-142);
\* the local status keeps the value the power supervision gave it.
Raise(st, br, rt, res, cs, ho) ==
    /\ status' = st
    /\ battle_result' = br
    /\ record_time' = rt
    /\ should_resume_recording' = res
    /\ calls' = cs \o ReleaseCalls
    /\ handoff' = ho
    /\ alive' = FALSE

\* ------------------------------------------------------------ power supervision

\* recorder.py:146
PowerCheckDue(since) == ~(since < PowerCheckInterval)

\* A counter that a check reading no power-off leaves as it was.
NextPowerOffCount_NoReset(count, po) == IF po THEN count + 1 ELSE count

\* recorder.py:150-153
NextPowerOffCount(count, po) == IF po THEN count + 1 ELSE 0

\* recorder.py:155
PowerOffConfirmed(count) == count >= PowerOffThreshold

\* A callback invoked on every confirmed power-off, without the test of
\* current_status.
CallbackCalls_EveryConfirmation(cur) ==
    IF power_off_callback THEN <<"power_off_callback">> ELSE <<>>

\* recorder.py:157-161: the callback runs on an ON->OFF edge, when registered.
CallbackCalls(cur) ==
    IF cur # OFF /\ power_off_callback THEN <<"power_off_callback">> ELSE <<>>

\* A powered-on result that is WAIT whatever the current state.
PoweredOnStatus_AlwaysWait(cur) == WAIT

\* recorder.py:172-178: the console is on.
PoweredOnStatus(cur) == IF cur = OFF THEN WAIT ELSE cur

\* A failed restart of the virtual camera that is logged and nothing more.
StopOnVcamFailure_Never(ok) == FALSE

\* recorder.py:167-169: when obs.start_virtual_cam answers with an error, the
\* warning is logged ("start_virtual_cam.Err") and self.stop() sets the stop
\* flag.
StopOnVcamFailure(ok) == ~ok

\* recorder.py:168: the warning logged for the error.
VcamAnswerCalls(ok) == IF ok THEN <<>> ELSE <<"start_virtual_cam.Err">>

\* _check_switch_power_status (recorder.py:144-178).  since is the time since
\* the last check; vcam tells that obs.start_virtual_cam was requested.
check_switch_power_status(f, cur, since, count) ==
    IF ~PowerCheckDue(since)
    THEN [status |-> cur, count |-> count, since |-> since, checked |-> FALSE,
          calls |-> <<>>, vcam |-> FALSE]
    ELSE LET c == NextPowerOffCount(count, f.power_off) IN
         IF PowerOffConfirmed(c)
         THEN [status |-> OFF, count |-> c, since |-> 0, checked |-> TRUE,
               calls |-> CallbackCalls(cur), vcam |-> FALSE]
         ELSE IF f.virtual_camera_off
         THEN [status |-> OFF, count |-> c, since |-> 0, checked |-> TRUE,
               calls |-> IF is_recording_mode
                         THEN <<"obs.start_virtual_cam">> ELSE <<>>,
               vcam |-> is_recording_mode]
         ELSE [status |-> PoweredOnStatus(cur), count |-> c, since |-> 0,
               checked |-> TRUE, calls |-> <<>>, vcam |-> FALSE]

\* ------------------------------------------------------------ recording commands

\* _start_record (recorder.py:265-272); it also resets _record_start_time.
StartCalls ==
    (IF is_recording_mode THEN <<"obs.start_record">> ELSE <<>>)
    \o (IF has_transcriber THEN <<"transcriber.start">> ELSE <<>>)

\* A resume that leaves out the backend.
ResumeCalls_None == <<>>

\* _pause_record (recorder.py:274-277)
PauseCalls == IF is_recording_mode THEN <<"obs.pause_record">> ELSE <<>>

\* _resume_record (recorder.py:279-282)
ResumeCalls == IF is_recording_mode THEN <<"obs.resume_record">> ELSE <<>>

\* A cancel that logs an Err answer of obs.stop_record and, lacking the
\* return, goes on to the file removal.
AfterCancelStop_IgnoresErr(ok) ==
    IF ok THEN <<"remove_file">> ELSE <<"stop_record.Err", "remove_file">>

\* recorder.py:293-298: an Err answer of obs.stop_record is logged
\* ("stop_record.Err") and _cancel_record returns; after Ok(path) the file is
\* removed.
AfterCancelStop(ok) == IF ok THEN <<"remove_file">> ELSE <<"stop_record.Err">>

\* A cancel that hands the accumulator to the upload queue before it
\* discards it.
cancel_record_Queues(rt, pre) ==
    Return(WAIT, EmptyBattleResult, rt, should_resume_recording,
           pre \o <<"_cancel_record", "Uploader.queue", "BattleResult">>,
           <<battle_result>>)

\* _cancel_record (recorder.py:284-300), followed by the caller's return WAIT.
\* obs.stop_record answers Ok(path) or Err; the finally block replaces the
\* accumulator by BattleResult() either way.
cancel_record(rt, pre) ==
    LET tcalls == IF has_transcriber THEN <<"transcriber.stop">> ELSE <<>> IN
    IF ~is_recording_mode
    THEN Return(WAIT, EmptyBattleResult, rt, should_resume_recording,
                pre \o <<"_cancel_record">> \o tcalls \o <<"BattleResult">>, <<>>)
    ELSE \E ok \in BOOLEAN :
            Return(WAIT, EmptyBattleResult, rt, should_resume_recording,
                   pre \o <<"_cancel_record">> \o tcalls \o <<"obs.stop_record">>
                       \o AfterCancelStop(ok)
                       \o <<"BattleResult">>,
                   <<>>)

\* What match_name, rule_name, stage_name and kill_record read on the final
\* frame (analyzer.py:216-223, 283-335); kill_record is None without a rule.
Metadata ==
    {[battle |-> "None", rule |-> "None", stage |-> "None", kill_record |-> <<>>],
     [battle |-> "XMatch", rule |-> "Area", stage |-> "Stage1", kill_record |-> <<>>],
     [battle |-> "XMatch", rule |-> "Area", stage |-> "Stage1",
      kill_record |-> <<3, 2, 1>>]}

MetadataOf(fd) ==
    IF fd = "plain" THEN {m \in Metadata : m.kill_record # <<>>} ELSE Metadata

\* A finalization without the backfill of the start time.
Finalized_NoBackfill(br, path_time, now, m) ==
    [br EXCEPT !.battle = m.battle, !.rule = m.rule, !.stage = m.stage]

\* recorder.py:319-321: with no start time stored the file name is parsed, and
\* the clock is read when the parse gives None.
BackfillCalls(br, path_time) ==
    IF br.start # NoTime THEN <<>>
    ELSE <<"Obs.extract_start_datetime">>
            \o (IF path_time = NoTime THEN <<"datetime.now">> ELSE <<>>)

\* recorder.py:319-330: the accumulator as it is when handed to the queue.
Finalized(br, path_time, now, m) ==
    LET start == IF br.start # NoTime THEN br.start
                 ELSE IF path_time # NoTime THEN path_time ELSE now
        named == [br EXCEPT !.start = start, !.battle = m.battle,
                            !.rule = m.rule, !.stage = m.stage]
    IN IF m.kill_record = <<>> THEN named
       ELSE [named EXCEPT !.kill = m.kill_record[1],
                          !.death = m.kill_record[2],
                          !.special = m.kill_record[3]]

\* A finalization that stops the backend first and the transcriber after it.
FinalizationOrder_BackendFirst(transcript, backend) == backend \o transcript

\* recorder.py:305-312: the transcriber block comes before the backend block.
FinalizationOrder(transcript, backend) == transcript \o backend

\* _stop_record (recorder.py:302-336), followed by the caller's return WAIT.
\* path_time is the time Obs.extract_start_datetime reads in the file name
\* (NoTime when it cannot be parsed).  Uploader.queue returns or raises
\* (uploader.py:44-59: UploadFile.__init__, set_thumbnail and embed_subtitles
\* raise, upload_file.py:28-29, 99-100, 87-89); _stop_record has no except
\* clause, so after its finally block the exception leaves
\* _handle_record_status before its return WAIT and ends run.
stop_record(rt, pre) ==
    LET tcalls == IF has_transcriber
                  THEN <<"transcriber.stop", "transcriber.get_srt">> ELSE <<>>
    IN
    IF ~is_recording_mode
    THEN Return(WAIT, EmptyBattleResult, rt, should_resume_recording,
                pre \o <<"_stop_record">> \o tcalls \o <<"BattleResult">>, <<>>)
    ELSE \/ \* recorder.py:313-315: Err is logged, then the finally block
            Return(WAIT, EmptyBattleResult, rt, should_resume_recording,
                   pre \o <<"_stop_record">>
                       \o FinalizationOrder(tcalls, <<"obs.stop_record">>)
                       \o <<"stop_record.Err", "BattleResult">>,
                   <<>>)
         \/ \E path_time \in (IF battle_result.start = NoTime
                              THEN PathStamps \cup {NoTime} ELSE {NoTime}),
               m \in MetadataOf(feed) :
            \E now \in (IF battle_result.start = NoTime /\ path_time = NoTime
                        THEN StampsOf(feed) ELSE {1}),
               queue_raises \in QueueOutcomesOf(feed) :
                LET cs == pre \o <<"_stop_record">>
                           \o FinalizationOrder(tcalls, <<"obs.stop_record">>)
                           \o BackfillCalls(battle_result, path_time)
                           \o <<"Uploader.queue", "BattleResult">>
                    ho == <<Finalized(battle_result, path_time, now, m)>>
                IN IF queue_raises
                   THEN Raise(RECORD, EmptyBattleResult, rt,
                              should_resume_recording, cs, ho)
                   ELSE Return(WAIT, EmptyBattleResult, rt,
                               should_resume_recording, cs, ho)

\* ------------------------------------------------------------ WAIT

\* recorder.py:190: stored != read, with RateBase.__eq__ (models/rate.py:23-26):
\* None differs from every rating; ratings of one variant differ by value;
\* XP.compare_rate and Udemae.compare_rate raise TypeError across variants.
RateCompareRaises(stored, read) ==
    stored # NoRate /\ stored.kind # read.kind

RateDiffers(stored, read) ==
    stored = NoRate \/ stored.value # read.value

\* A schedule-change test that looks at the start time only.
ScheduleChanged_StartOnly(br, f) ==
    br.start # NoTime /\ f.change_schedule

\* recorder.py:183
ScheduleChanged(br, f) ==
    (br.start # NoTime \/ br.rate # NoRate) /\ f.change_schedule

\* A WAIT handler that looks for the battle start in every mode.
WaitsForMatching_Never(br) == FALSE

\* recorder.py:188, 200-201: in recording mode, with no start time stored when
\* the frame arrives, _handle_wait_status returns WAIT before the battle start
\* is looked at.
WaitsForMatching(br) == br.start = NoTime /\ is_recording_mode

\* A WAIT handler that stamps the start time on every matching-start frame.
StampsStart_EveryTime(br, f) == f.matching_start

\* recorder.py:188, 195-196: the start time is stamped on a matching-start
\* frame that arrives while none is stored.
StampsStart(br, f) == br.start = NoTime /\ f.matching_start

\* _handle_wait_status (recorder.py:180-208); "analyzer.battle_start" in the
\* calls tells that line 204 evaluated the battle-start signal.
handle_wait_status(f, rt, pre) ==
    LET br == battle_result
        res == should_resume_recording
    IN
    IF ScheduleChanged(br, f)
    THEN Return(WAIT, EmptyBattleResult, rt, res, pre \o <<"BattleResult">>, <<>>)
    ELSE IF br.start = NoTime /\ f.rate # NoRate /\ RateCompareRaises(br.rate, f.rate)
    THEN Raise(WAIT, br, rt, res, pre, <<>>)
    ELSE \E now \in (IF StampsStart(br, f) THEN StampsOf(feed) ELSE {1}) :
        LET rated == IF br.start = NoTime /\ f.rate # NoRate
                        /\ RateDiffers(br.rate, f.rate)
                     THEN [br EXCEPT !.rate = f.rate] ELSE br
            timed == IF StampsStart(br, f)
                     THEN [rated EXCEPT !.start = now] ELSE rated
        IN
        IF WaitsForMatching(br)
        THEN Return(WAIT, timed, rt, res, pre, <<>>)
        ELSE IF f.battle_start
        THEN Return(RECORD, timed, 0, res,
                    pre \o <<"analyzer.battle_start">> \o StartCalls, <<>>)
        ELSE Return(WAIT, timed, rt, res, pre \o <<"analyzer.battle_start">>, <<>>)

\* ------------------------------------------------------------ RECORD

\* A handler that pauses on the finish banner and leaves the stored predicate
\* as it was.
PredicateOnFinish_Kept(res) == res

\* recorder.py:231-232: the predicate stored before the pause on the finish
\* banner.
PredicateOnFinish(res) == "finish"

\* recorder.py:244: the predicate stored before the pause on the loading
\* screen.
PredicateOnLoading(res) == "loading"

\* A timeout measured against the abort window.
IsTimeout_AtAbortWindow(rt) == rt > AbortWindow

\* recorder.py:215
IsTimeout(rt) == rt > RecordTimeout

\* Abort windows with the comparison turned round, and with the boundary
\* included.
InAbortWindow_Inverted(rt) == rt > AbortWindow
InAbortWindow_Inclusive(rt) == rt <= AbortWindow

\* recorder.py:221
InAbortWindow(rt) == rt < AbortWindow

\* A handler that looks for the loading screen and the stop signal whether or
\* not an outcome is stored.
OutcomeKnown_Always(br) == TRUE

\* recorder.py:227: the finish banner and the outcome are looked for while no
\* outcome is stored, the loading screen and the stop signal once one is.
OutcomeKnown(br) == br.result # "None"

\* _handle_record_status (recorder.py:210-253)
handle_record_status(f, rt, pre) ==
    LET br == battle_result
        res == should_resume_recording
    IN
    IF IsTimeout(rt)
    THEN stop_record(rt, pre)
    ELSE IF InAbortWindow(rt) /\ f.battle_abort
    THEN cancel_record(rt, pre)
    ELSE IF ~OutcomeKnown(br)
    THEN IF f.battle_finish
         THEN Return(PAUSE, br, rt, PredicateOnFinish(res), pre \o PauseCalls, <<>>)
         ELSE Return(RECORD, [br EXCEPT !.result = f.battle_result], rt, res,
                     pre, <<>>)
    ELSE IF f.loading
    THEN Return(PAUSE, br, rt, PredicateOnLoading(res), pre \o PauseCalls, <<>>)
    ELSE IF f.battle_stop
    THEN stop_record(rt, pre)
    ELSE Return(RECORD, br, rt, res, pre, <<>>)

\* ------------------------------------------------------------ PAUSE

\* The stored predicate applied to a frame (recorder.py:231-232, 244): TRUE
\* keeps the recording paused.
ResumePredicate(res, f) ==
    IF res = "finish" THEN ~battle_result_latter_half(f) ELSE f.loading

\* _handle_pause_status (recorder.py:255-263)
handle_pause_status(f, rt, pre) ==
    LET br == battle_result
        res == should_resume_recording
    IN
    IF res = "None"
    THEN Raise(PAUSE, br, rt, res, pre, <<>>)
    ELSE IF ~ResumePredicate(res, f)
    THEN Return(RECORD, br, rt, res, pre \o ResumeCalls, <<>>)
    ELSE Return(PAUSE, br, rt, res, pre, <<>>)

\* ------------------------------------------------------------ run

\* recorder.py:123-133: the handler of the state the power supervision left.
Dispatch(f, st, rt, pre) ==
    CASE st = WAIT -> handle_wait_status(f, rt, pre)
      [] st = RECORD -> handle_record_status(f, rt, pre)
      [] st = PAUSE -> handle_pause_status(f, rt, pre)
      [] OTHER -> Return(st, battle_result, rt, should_resume_recording, pre, <<>>)

\* The power checks in a row, up to and with the latest, that read power-off
\* (po) or did not; kept beside _power_off_count to state the debounce.
CheckStreak(n, hit, cap) == IF hit THEN Clip(n + 1, cap) ELSE 0

\* A loop that goes on whatever the stop flag says.
LoopContinues_IgnoresStop == TRUE

\* recorder.py:112: while not self.stopped
LoopContinues == ~stopped

\* One iteration of the loop of run (recorder.py:117-133) on the frame f that
\* capture.read() delivered dt seconds after the previous one; stop_called
\* tells that another thread called stop() (graceful_thread.py:9-10) while the
\* iteration was under way.  Nothing clears the stop flag.
ProcessFrame(dt, f, stop_called) ==
    LET since == Clip(since_power_check + dt, PowerCheckInterval)
        rt == IF status \in {RECORD, PAUSE}
              THEN Clip(record_time + dt, RecordTimeout + 1)
              ELSE 0
        pw == check_switch_power_status(f, status, since, power_off_count)
    IN /\ pw.count <= MaxPowerOffCount
       /\ power_off_count' = pw.count
       /\ since_power_check' = pw.since
       /\ current_status' = status
       /\ checked' = pw.checked
       /\ handled' = pw.status
       /\ frame' = Noted(f, pw.status)
       /\ negative_checks' = IF pw.checked
                             THEN CheckStreak(negative_checks, ~f.power_off,
                                              PowerOffThreshold)
                             ELSE negative_checks
       /\ positive_checks' = IF pw.checked
                             THEN CheckStreak(positive_checks, f.power_off,
                                              MaxPowerOffCount)
                             ELSE positive_checks
       /\ \E vc_ok \in (IF pw.vcam THEN BOOLEAN ELSE {TRUE}) :
            \* recorder.py:167-169: a failed restart sets the stop flag
            /\ stopped' = (stopped \/ stop_called \/ StopOnVcamFailure(vc_ok))
            /\ Dispatch(f, pw.status, rt, pw.calls \o VcamAnswerCalls(vc_ok))

Process(dt, f) == ProcessFrame(dt, f, FALSE)

\* The loop of run takes the next frame (recorder.py:112-113): its power
\* fields (p), which vary when the power check is due, and the fields for the
\* handler that the power supervision dispatches to (b).  late tells that the
\* stop flag was already set when capture.read() was called.
TakeFrame(stop_called, late) ==
    /\ frames_after_stop' = IF late THEN Clip(frames_after_stop + 1, MaxLateFrames)
                            ELSE frames_after_stop
    /\ \E dt \in TicksFor(status) :
        LET since == Clip(since_power_check + dt, PowerCheckInterval) IN
        \E p \in (IF PowerCheckDue(since)
                  THEN PowerFrames(NeutralFrame) ELSE {NeutralFrame}) :
        LET pw == check_switch_power_status(p, status, since, power_off_count) IN
        \E b \in FramesFor(pw.status, battle_result, should_resume_recording,
                          feed) :
            ProcessFrame(dt, [b EXCEPT !.power_off = p.power_off,
                                       !.virtual_camera_off = p.virtual_camera_off],
                         stop_called)
    /\ UNCHANGED <<evaluation, transcriber, feed, is_recording_mode, scenario>>

\* An iteration during which no other thread sets the stop flag.
Iterate ==
    /\ alive /\ LoopContinues
    /\ TakeFrame(FALSE, stopped)
    /\ UNCHANGED <<obs, seen_on>>

\* An iteration during which another thread sets the stop flag, through
\* stop() or through _on_disconnect_obs (recorder.py:51-53), after the loop
\* condition was evaluated: before capture.read() is called (late) or after.
IterateStopped ==
    /\ alive /\ LoopContinues
    /\ \E late \in BOOLEAN : TakeFrame(TRUE, late \/ stopped)
    /\ UNCHANGED <<obs, seen_on>>

\* capture.read() fails (recorder.py:114-116): run raises and releases.
ReadFail ==
    /\ alive /\ LoopContinues
    /\ alive' = FALSE
    /\ calls' = ReleaseCalls
    /\ handoff' = <<>>
    /\ checked' = FALSE
    /\ current_status' = "None"
    /\ handled' = "None"
    /\ frame' = NeutralFrame
    /\ UNCHANGED <<obs, seen_on, evaluation, transcriber, feed, is_recording_mode, status, battle_result,
                   record_time, since_power_check, power_off_count,
                   should_resume_recording, stopped,
                   negative_checks, positive_checks, scenario,
                   frames_after_stop>>

\* GracefulThread.stop (utility/graceful_thread.py:9-10), called by the owner
\* of the thread or by _on_disconnect_obs (recorder.py:51-53).
stop ==
    /\ alive /\ ~stopped
    /\ stopped' = TRUE
    /\ calls' = <<>>
    /\ handoff' = <<>>
    /\ checked' = FALSE
    /\ current_status' = "None"
    /\ handled' = "None"
    /\ frame' = NeutralFrame
    /\ UNCHANGED <<obs, seen_on, evaluation, transcriber, feed, is_recording_mode, status, battle_result,
                   record_time, since_power_check, power_off_count,
                   should_resume_recording, alive,
                   negative_checks, positive_checks, scenario,
                   frames_after_stop>>

\* The loop condition of run sees the stop flag (recorder.py:112, 138-142).
Exit ==
    /\ alive /\ ~LoopContinues
    /\ alive' = FALSE
    /\ calls' = ReleaseCalls
    /\ handoff' = <<>>
    /\ checked' = FALSE
    /\ current_status' = "None"
    /\ handled' = "None"
    /\ frame' = NeutralFrame
    /\ UNCHANGED <<obs, seen_on, evaluation, transcriber, feed, is_recording_mode, status, battle_result,
                   record_time, since_power_check, power_off_count,
                   should_resume_recording, stopped,
                   negative_checks, positive_checks, scenario,
                   frames_after_stop>>

Next ==
    \/ Iterate
    \/ ReadFail
    \/ stop
    \/ Exit

Spec == Init /\ [][Next]_vars

\* In front of the plain feed; the loop of run goes on taking frames as long
\* as it is not stopped and capture.read() delivers them (recorder.py:112-113).
PlainInit == InitWith("plain") /\ scenario = Unscripted
FairSpec == PlainInit /\ [][Next]_vars /\ WF_vars(Iterate)

\* The plain feed with stop() arriving between or during iterations.
StopNext ==
    \/ Next
    \/ IterateStopped

StopSpec == PlainInit /\ [][StopNext]_vars

\* ------------------------------------------------------------ run with the backend

\* Obs.start_record (wrapper/obs.py:190-211) with requests that succeed: an
\* active output is left as it is and Ok is answered.
Obs_start_record(o) ==
    IF o.active THEN o ELSE [active |-> TRUE, paused |-> FALSE]

\* Obs.stop_record (wrapper/obs.py:213-238): Err when the output is not
\* active, else the output ends.
Obs_stop_record(o) ==
    IF ~o.active THEN o ELSE [active |-> FALSE, paused |-> FALSE]

\* Obs.pause_record (wrapper/obs.py:240-261): nothing is requested of a paused
\* output, and the backend pauses an active one only.
Obs_pause_record(o) ==
    IF o.paused \/ ~o.active THEN o ELSE [o EXCEPT !.paused = TRUE]

\* Obs.resume_record (wrapper/obs.py:263-284)
Obs_resume_record(o) ==
    IF ~o.paused THEN o ELSE [o EXCEPT !.paused = FALSE]

\* The backend after the commands among the calls cs, in order.
RECURSIVE ObsAfter(_, _)
ObsAfter(o, cs) ==
    IF cs = <<>> THEN o
    ELSE LET c == Head(cs)
             n == CASE c = "obs.start_record" -> Obs_start_record(o)
                    [] c = "obs.stop_record" -> Obs_stop_record(o)
                    [] c = "obs.pause_record" -> Obs_pause_record(o)
                    [] c = "obs.resume_record" -> Obs_resume_record(o)
                    [] OTHER -> o
         IN ObsAfter(n, Tail(cs))

InCalls(cs, c) == \E i \in DOMAIN cs : cs[i] = c

\* The answers of a backend whose requests succeed: obs.stop_record answers
\* Err exactly when the output is not active (wrapper/obs.py:222-223), and
\* obs.start_virtual_cam answers Ok.
BackendAnswers(o, cs) ==
    /\ InCalls(cs, "stop_record.Err") <=> (InCalls(cs, "obs.stop_record") /\ ~o.active)
    /\ ~InCalls(cs, "start_virtual_cam.Err")

\* recorder.py:150-178 beside the ghost seen_on: a check that enters OFF
\* clears it, any other check that reads no power-off sets it.
SeenOnAfter(seen, was_checked, cur, st, po) ==
    IF ~was_checked THEN seen
    ELSE IF st = OFF /\ cur # OFF THEN FALSE
    ELSE IF ~po THEN TRUE
    ELSE seen

\* An iteration of run in front of a backend whose requests succeed.
IterateBackend ==
    /\ alive /\ LoopContinues
    /\ TakeFrame(FALSE, stopped)
    /\ BackendAnswers(obs, calls')
    /\ obs' = ObsAfter(obs, calls')
    /\ seen_on' = SeenOnAfter(seen_on, checked', current_status', handled',
                              frame'.power_off)

BackendNext ==
    \/ IterateBackend
    \/ ReadFail
    \/ stop
    \/ Exit

BackendSpec == PlainInit /\ [][BackendNext]_vars

\* ------------------------------------------------------------ _stop_record alone

\* The accumulators _stop_record can be called with, as far as the start
\* time, the outcome and the rating go.
Accumulators ==
    {[EmptyBattleResult EXCEPT !.start = t, !.result = o, !.rate = r] :
        t \in Stamps \cup {NoTime}, o \in Outcomes \cup {"None"},
        r \in Rates \cup {NoRate}}

\* A recorder in RECORD, in recording mode, holding any accumulator.
FinalizeInit ==
    /\ feed = "full"
    /\ is_recording_mode = TRUE
    /\ status = RECORD
    /\ battle_result \in Accumulators
    /\ record_time \in {0, RecordTimeout + 1}
    /\ since_power_check = 0
    /\ power_off_count = 0
    /\ should_resume_recording = "None"
    /\ stopped = FALSE
    /\ alive = TRUE
    /\ frame = NeutralFrame
    /\ current_status = "None"
    /\ checked = FALSE
    /\ handled = "None"
    /\ calls = <<>>
    /\ handoff = <<>>
    /\ negative_checks = 0
    /\ positive_checks = 0
    /\ scenario = Unscripted
    /\ frames_after_stop = 0
    /\ evaluation = NoEvaluation
    /\ transcriber = Transcriber_init
    /\ obs = Obs_init
    /\ seen_on = FALSE

\* _handle_record_status calls _stop_record (recorder.py:217, 250) and
\* returns WAIT.
Finalize ==
    /\ alive /\ status = RECORD
    /\ stop_record(record_time, <<>>)
    /\ current_status' = RECORD
    /\ handled' = RECORD
    /\ checked' = FALSE
    /\ frame' = NeutralFrame
    /\ UNCHANGED <<obs, seen_on, evaluation, transcriber, feed, is_recording_mode, since_power_check, power_off_count,
                   stopped, negative_checks, positive_checks, scenario,
                   frames_after_stop>>

FinalizeSpec == FinalizeInit /\ [][Finalize]_vars

\* ------------------------------------------------------------ _handle_wait_status alone

\* Every frame the capture can deliver to _handle_wait_status, whatever the
\* accumulator holds: the screens do not depend on what the recorder stored.
AnyWaitFrames ==
    {[NeutralFrame EXCEPT !.change_schedule = cs, !.rate = r,
                          !.matching_start = ms, !.battle_start = bs] :
        cs \in BOOLEAN, r \in Rates \cup {NoRate}, ms \in BOOLEAN,
        bs \in BOOLEAN}

\* A recorder in WAIT, in recording mode, holding any accumulator that WAIT
\* can hold: the outcome is read in RECORD only, and every way back to WAIT
\* empties the accumulator.
WaitInit ==
    /\ feed = "full"
    /\ is_recording_mode = TRUE
    /\ status = WAIT
    /\ battle_result \in {a \in Accumulators : a.result = "None"}
    /\ record_time = 0
    /\ since_power_check = 0
    /\ power_off_count = 0
    /\ should_resume_recording = "None"
    /\ stopped = FALSE
    /\ alive = TRUE
    /\ frame = NeutralFrame
    /\ current_status = "None"
    /\ checked = FALSE
    /\ handled = "None"
    /\ calls = <<>>
    /\ handoff = <<>>
    /\ negative_checks = 0
    /\ positive_checks = 0
    /\ scenario = Unscripted
    /\ frames_after_stop = 0
    /\ evaluation = NoEvaluation
    /\ transcriber = Transcriber_init
    /\ obs = Obs_init
    /\ seen_on = FALSE

\* run dispatches a frame to _handle_wait_status (recorder.py:125-126) between
\* two power checks; frame keeps the whole frame.
HandleWait ==
    /\ alive /\ status = WAIT
    /\ \E f \in AnyWaitFrames :
         /\ handle_wait_status(f, 0, <<>>)
         /\ frame' = f
    /\ current_status' = WAIT
    /\ handled' = WAIT
    /\ checked' = FALSE
    /\ UNCHANGED <<obs, seen_on, evaluation, transcriber, feed, is_recording_mode, since_power_check, power_off_count,
                   stopped, negative_checks, positive_checks, scenario,
                   frames_after_stop>>

WaitSpec == WaitInit /\ [][HandleWait]_vars

\* ------------------------------------------------------------ _handle_record_status alone

\* Every frame the capture can deliver to _handle_record_status, whatever
\* the accumulator holds.
AnyRecordFrames ==
    {f \in {[NeutralFrame EXCEPT !.battle_abort = ab, !.battle_finish = fi,
                                 !.battle_result = o, !.loading = lo,
                                 !.battle_stop = sp] :
               ab \in BOOLEAN, fi \in BOOLEAN, o \in Outcomes \cup {"None"},
               lo \in BOOLEAN, sp \in BOOLEAN} :
        ConsistentFrame(f)}

\* A recorder in RECORD, in recording mode, early in the recording, at the
\* end of the abort window or past the timeout, holding any accumulator that
\* RECORD can hold: RECORD is entered with a start time stored
\* (recorder.py:188-206).
RecordInit ==
    /\ feed = "full"
    /\ is_recording_mode = TRUE
    /\ status = RECORD
    /\ battle_result \in {a \in Accumulators : a.start # NoTime}
    /\ record_time \in {0, AbortWindow, RecordTimeout + 1}
    /\ since_power_check = 0
    /\ power_off_count = 0
    /\ should_resume_recording \in {"None", "finish", "loading"}
    /\ stopped = FALSE
    /\ alive = TRUE
    /\ frame = NeutralFrame
    /\ current_status = "None"
    /\ checked = FALSE
    /\ handled = "None"
    /\ calls = <<>>
    /\ handoff = <<>>
    /\ negative_checks = 0
    /\ positive_checks = 0
    /\ scenario = Unscripted
    /\ frames_after_stop = 0
    /\ evaluation = NoEvaluation
    /\ transcriber = Transcriber_init
    /\ obs = Obs_init
    /\ seen_on = FALSE

\* run dispatches a frame to _handle_record_status (recorder.py:127-128)
\* between two power checks; frame keeps the whole frame.
HandleRecord ==
    /\ alive /\ status = RECORD
    /\ \E f \in AnyRecordFrames :
         /\ handle_record_status(f, record_time, <<>>)
         /\ frame' = f
    /\ current_status' = RECORD
    /\ handled' = RECORD
    /\ checked' = FALSE
    /\ UNCHANGED <<obs, seen_on, evaluation, transcriber, feed, is_recording_mode,
                   since_power_check, power_off_count,
                   stopped, negative_checks, positive_checks, scenario,
                   frames_after_stop>>

RecordSpec == RecordInit /\ [][HandleRecord]_vars

\* ------------------------------------------------------------ the handlers alone

\* Every frame the capture can deliver to _handle_pause_status, whatever the
\* stored predicate.
AnyPauseFrames ==
    {f \in {[NeutralFrame EXCEPT !.right_top_black = rt, !.battle_result = o,
                                 !.loading = lo] :
               rt \in BOOLEAN, o \in Outcomes \cup {"None"}, lo \in BOOLEAN} :
        ConsistentFrame(f)}

\* run dispatches a frame to _handle_pause_status (recorder.py:129-130)
\* between two power checks; frame keeps the whole frame.
HandlePause ==
    /\ alive /\ status = PAUSE
    /\ \E f \in AnyPauseFrames :
         /\ handle_pause_status(f, record_time, <<>>)
         /\ frame' = f
    /\ current_status' = PAUSE
    /\ handled' = PAUSE
    /\ checked' = FALSE
    /\ UNCHANGED <<obs, seen_on, evaluation, transcriber, feed, is_recording_mode,
                   since_power_check, power_off_count,
                   stopped, negative_checks, positive_checks, scenario,
                   frames_after_stop>>

\* The three handlers applied, frame after frame, to every frame the capture
\* can deliver, from every accumulator WAIT or RECORD can hold.
HandlersNext ==
    \/ HandleWait
    \/ HandleRecord
    \/ HandlePause

HandlersInit ==
    \/ WaitInit
    \/ RecordInit

HandlersSpec == HandlersInit /\ [][HandlersNext]_vars

\* ------------------------------------------------------------ scripted runs

Repeat(f, n) == [i \in 1..n |-> f]

\* The frames of the end-to-end scenario; each element is the set of frames
\* that fit the description of one frame of the script.
PowerOnFrame == {NeutralFrame}
MatchingStartFrame == {[NeutralFrame EXCEPT !.matching_start = TRUE]}
BattleStartFrame == {[NeutralFrame EXCEPT !.battle_start = TRUE]}
FinishBannerFrame == {[NeutralFrame EXCEPT !.battle_finish = TRUE]}
StillInBannerFrame ==
    {[NeutralFrame EXCEPT !.battle_finish = TRUE, !.right_top_black = rt] :
        rt \in BOOLEAN}
BannerClearedWinFrame ==
    {[NeutralFrame EXCEPT !.right_top_black = TRUE, !.battle_result = "WIN"]}
WinVisibleFrame == {[NeutralFrame EXCEPT !.battle_result = "WIN"]}
StopSignalFrame ==
    {[NeutralFrame EXCEPT !.battle_stop = TRUE, !.battle_result = o] :
        o \in {"None", "WIN"}}

\* "stated": 5 power-on, 1 matching-start, 1 battle-start, 50 neutral,
\* 1 finish-banner, 3 still-in-banner, 1 banner-cleared with WIN visible,
\* 1 stop-signal.  "outcome_read": the same with one more frame that shows
\* WIN before the stop signal.
ScriptHead ==
    Repeat(PowerOnFrame, 5) \o <<MatchingStartFrame, BattleStartFrame>>
        \o Repeat(PowerOnFrame, 50) \o <<FinishBannerFrame>>
        \o Repeat(StillInBannerFrame, 3) \o <<BannerClearedWinFrame>>

Scripts ==
    [stated |-> ScriptHead \o <<StopSignalFrame>>,
     outcome_read |-> ScriptHead \o <<WinVisibleFrame, StopSignalFrame>>]

\* The position of the matching-start frame in both scripts.
MatchingStartAt == Len(Repeat(PowerOnFrame, 5)) + 1

ScriptDone == scenario.name # "none" /\ scenario.fed = Len(Scripts[scenario.name])

ScenarioInit ==
    /\ InitWith("full")
    /\ \E n \in DOMAIN Scripts :
         scenario = [name |-> n, fed |-> 0, queued |-> <<>>, matched_at |-> NoTime]

\* The loop of run takes the next frame of the script, at once or one
\* power-check interval after the previous one.
Feed ==
    /\ alive /\ LoopContinues
    /\ scenario.name # "none"
    /\ scenario.fed < Len(Scripts[scenario.name])
    /\ \E dt \in {0, PowerCheckInterval},
          f \in Scripts[scenario.name][scenario.fed + 1] :
         Process(dt, f)
    /\ scenario' = [name |-> scenario.name,
                    fed |-> scenario.fed + 1,
                    queued |-> scenario.queued \o handoff',
                    matched_at |-> IF scenario.fed + 1 = MatchingStartAt
                                   THEN battle_result'.start
                                   ELSE scenario.matched_at]
    /\ UNCHANGED <<obs, seen_on, evaluation, transcriber, feed, is_recording_mode, frames_after_stop>>

ScenarioSpec == ScenarioInit /\ [][Feed]_vars

\* ------------------------------------------------------------ strings and floats

\* A str is the sequence of its characters.
Digits == <<"0", "1", "2", "3", "4", "5", "6", "7", "8", "9">>

IsDigit(c) == \E i \in DOMAIN Digits : Digits[i] = c

DigitValue(c) == (CHOOSE i \in DOMAIN Digits : Digits[i] = c) - 1

AllDigits(s) == \A i \in DOMAIN s : IsDigit(s[i])

\* int(s) for a str of decimal digits.
RECURSIVE NumberOf(_)
NumberOf(s) ==
    IF s = <<>> THEN 0
    ELSE NumberOf(SubSeq(s, 1, Len(s) - 1)) * 10 + DigitValue(s[Len(s)])

\* str(n) for an int n >= 0.
RECURSIVE DigitsOf(_)
DigitsOf(n) ==
    IF n < 10 THEN <<Digits[n + 1]>>
    ELSE DigitsOf(n \div 10) \o <<Digits[(n % 10) + 1]>>

\* str.strip(): the white space at both ends removed.
RECURSIVE Strip(_)
Strip(s) ==
    IF s = <<>> THEN s
    ELSE IF Head(s) = " " THEN Strip(Tail(s))
    ELSE IF s[Len(s)] = " " THEN Strip(SubSeq(s, 1, Len(s) - 1))
    ELSE s

\* The floats of this model have at most FractionDigits decimals and are
\* kept in tenths.
FractionDigits == 1

\* float(s): digits with at most one point and at least one digit, white
\* space at the ends ignored; anything else raises ValueError (ok = FALSE).
\* The strings given to it here have no sign, no exponent and at most
\* FractionDigits decimals.
float_of_str(s) ==
    LET t == Strip(s)
        dots == {i \in DOMAIN t : t[i] = "."}
        dot == IF dots = {} THEN Len(t) + 1 ELSE CHOOSE i \in dots : TRUE
        whole == SubSeq(t, 1, dot - 1)
        frac == SubSeq(t, dot + 1, Len(t))
        wellformed == /\ Cardinality(dots) <= 1
                      /\ AllDigits(whole) /\ AllDigits(frac)
                      /\ Len(whole) + Len(frac) >= 1
                      /\ Len(frac) <= FractionDigits
    IN IF wellformed
       THEN [ok |-> TRUE,
             value |-> NumberOf(whole) * 10
                         + (IF frac = <<>> THEN 0 ELSE DigitValue(frac[1]))]
       ELSE [ok |-> FALSE, value |-> 0]

\* str(x) for a float x >= 0 kept in tenths: the shortest decimal that reads
\* back as x, always with its decimal ("2000.0").
str_of_float(x) == DigitsOf(x \div 10) \o <<".">> \o <<Digits[(x % 10) + 1]>>

\* float(n) for an int n.
float_of_int(n) == n * 10

\* ------------------------------------------------------------ models/rate.py

\* Udemae.RANK_ORDER (models/rate.py:93-98): the labels in their order.
RankLabels ==
    << <<"C", "-">>, <<"C">>, <<"C", "+">>,
       <<"B", "-">>, <<"B">>, <<"B", "+">>,
       <<"A", "-">>, <<"A">>, <<"A", "+">>,
       <<"S">>, <<"S", "+">> >>

InRankOrder(label) == \E i \in DOMAIN RankLabels : RankLabels[i] = label

RANK_ORDER(label) == (CHOOSE i \in DOMAIN RankLabels : RankLabels[i] = label) - 1

\* XP.__init__ (models/rate.py:62-63): keeps the float as it is.
XP_init(xp) == Out("None", <<XP(xp)>>, <<>>, FALSE)

\* Udemae.__init__ (models/rate.py:100-103)
Udemae_init(udemae) ==
    IF InRankOrder(udemae)
    THEN Out("None", <<Udemae(RANK_ORDER(udemae))>>, <<>>, FALSE)
    ELSE Out("ValueError", <<>>, <<>>, FALSE)

\* A three-way comparison that ranks every XP below every Udemae.
compare_rate_Coercing(self, other) ==
    LET key(r) == IF r.kind = "XP" THEN r.value - 100000 ELSE r.value
    IN Out("None", <<>>,
           <<IF key(self) < key(other) THEN -1
             ELSE IF key(self) > key(other) THEN 1 ELSE 0>>, FALSE)

\* XP.compare_rate (models/rate.py:73-81) and Udemae.compare_rate (113-125):
\* -1, 0 or 1 within a variant, TypeError across variants.
compare_rate(self, other) ==
    IF self.kind # other.kind
    THEN Out("TypeError", <<>>, <<>>, FALSE)
    ELSE Out("None", <<>>,
             <<IF self.value < other.value THEN -1
               ELSE IF self.value > other.value THEN 1 ELSE 0>>, FALSE)

\* RateBase.__eq__ (models/rate.py:23-26), for other a rating.
RateBase_eq(self, other) ==
    LET c == compare_rate(self, other) IN
    IF c.raised # "None" THEN c
    ELSE Out("None", <<>>, <<>>, c.nums[1] = 0)

\* RateBase.__lt__ (models/rate.py:28-31), for other a rating.
RateBase_lt(self, other) ==
    LET c == compare_rate(self, other) IN
    IF c.raised # "None" THEN c
    ELSE Out("None", <<>>, <<>>, c.nums[1] = -1)

\* An XP written without its decimals.
XP_str_Truncated(self) == DigitsOf(self.value \div 10)

\* XP.__str__ (models/rate.py:83-84): str(self.xp)
XP_str(self) == str_of_float(self.value)

\* Udemae.__str__ (models/rate.py:127-128)
Udemae_str(self) == RankLabels[self.value + 1]

\* str(rate)
Rate_str(r) == IF r.kind = "XP" THEN XP_str(r) ELSE Udemae_str(r)

\* The values given to RateBase.create: an int, a float (in tenths), a str,
\* or a value of another type.
PyInt(n) == [type |-> "int", num |-> n, text |-> <<>>]
PyFloat(x) == [type |-> "float", num |-> x, text |-> <<>>]
PyStr(s) == [type |-> "str", num |-> 0, text |-> s]
PyNone == [type |-> "NoneType", num |-> 0, text |-> <<>>]

\* RateBase.create (models/rate.py:41-58): a number, or a str that float()
\* accepts, gives an XP; any other str goes to Udemae(value), whose
\* ValueError is not caught; any other type raises ValueError.
RateBase_create(value) ==
    CASE value.type = "int" -> XP_init(float_of_int(value.num))
      [] value.type = "float" -> XP_init(value.num)
      [] value.type = "str" ->
            LET xp == float_of_str(value.text) IN
            IF xp.ok THEN XP_init(xp.value) ELSE Udemae_init(value.text)
      [] OTHER -> Out("ValueError", <<>>, <<>>, FALSE)

\* What self._ocr.read_text returns: Ok(text) or Err.
OcrOk(text) == [ok |-> TRUE, text |-> text]
OcrErr == [ok |-> FALSE, text |-> <<>>]

\* Analyzer.x_power (analyzer.py:250-281) on an image on which the OCR (when
\* has_ocr) reads read and, when matched, one of the X power screens is
\* found; the returned tuple is kept as its XP, None as no rating.
x_power(has_ocr, matched, read) ==
    IF ~has_ocr \/ ~matched \/ ~read.ok THEN NoOut
    ELSE LET xp == float_of_str(Strip(read.text)) IN
         IF ~xp.ok THEN NoOut
         ELSE IF xp.value < 5000 \/ xp.value > 55000 THEN NoOut
         ELSE XP_init(xp.value)

\* str() of two ratings, RateBase.create of both strings (as
\* BattleResult.to_list and from_list do for the rating, battle_result.py:24,
\* 37), and compare_rate of the results; the re-created ratings are kept
\* with the comparison.
Reparsed(a, b) ==
    LET ra == RateBase_create(PyStr(Rate_str(a)))
        rb == RateBase_create(PyStr(Rate_str(b)))
    IN IF ra.raised # "None" THEN ra
       ELSE IF rb.raised # "None" THEN rb
       ELSE LET c == compare_rate(ra.rates[1], rb.rates[1]) IN
            Out(c.raised, ra.rates \o rb.rates, c.nums, FALSE)

\* ------------------------------------------------------------ analyzer.py

\* A finish test that wants the sentinel region not to be of one colour.
battle_finish_NotUniform(uniform, black, finish_text, finish_band) ==
    IF uniform \/ black THEN FALSE ELSE finish_text /\ finish_band

\* Analyzer.battle_finish (analyzer.py:176-183) on an image whose sentinel
\* region image[400:440, 810:840] UniformColorMatcher.match finds of one
\* colour (uniform: the deviation of its hue is at most 10,
\* image_matcher.py:127-128) and black_screen finds black (black), and on
\* which the two HSV matchers answer finish_text and finish_band.
battle_finish(uniform, black, finish_text, finish_band) ==
    IF ~uniform \/ black THEN FALSE ELSE finish_text /\ finish_band

\* The state of a reference image under assets/templates: "ok", "missing", or
\* "unreadable" (the file exists and cv2.imread returns None for it).
AssetStates == {"ok", "missing", "unreadable"}

\* cv2.imread(path) returns None.
ImreadNone(asset) == asset # "ok"

\* BaseMatcher.__init__ (image_matcher.py:10-14) with a mask path.
BaseMatcher_init(mask) ==
    IF ImreadNone(mask) THEN "ValueError" ELSE "None"

\* A template matcher that does not look at what cv2.imread returned.
TemplateMatcher_init_Unchecked(template) == "None"

\* TemplateMatcher.__init__ (image_matcher.py:174-188) without a mask.
TemplateMatcher_init(template) ==
    IF ImreadNone(template) THEN "ValueError" ELSE "None"

\* TemplateMatcher.__init__ with a mask: the mask is read first
\* (image_matcher.py:182).
MaskedTemplateMatcher_init(template, mask) ==
    IF BaseMatcher_init(mask) # "None" THEN BaseMatcher_init(mask)
    ELSE TemplateMatcher_init(template)

\* HSVMatcher.__init__ (image_matcher.py:55-67) with a mask.
HSVMatcher_init(mask) == BaseMatcher_init(mask)

\* HashMatcher.__init__ (image_matcher.py:24-30): hashlib.sha1(None) raises
\* TypeError.
HashMatcher_init(image) ==
    IF ImreadNone(image) THEN "TypeError" ELSE "None"

\* The first exception of a sequence of constructions ("None": none raised).
RECURSIVE FirstRaised(_)
FirstRaised(steps) ==
    IF steps = <<>> THEN "None"
    ELSE IF Head(steps) # "None" THEN Head(steps)
    ELSE FirstRaised(Tail(steps))

\* Analyzer._init_matchers (analyzer.py:39-137), for one image of each way a
\* matcher is built: a template (matching.png, :47), a mask of an HSV matcher
\* (matching_mask.png, :48-49), a template with its mask (s.png and
\* s_mask.png, :128), the hashed image (virtual_camera_off.png, :133-134) and
\* power_off.png, whose matcher is built only when the file exists
\* (:135-137).  The flag tells that _power_off_matcher is not None.
Analyzer_init(assets) ==
    LET raised ==
          FirstRaised(<<TemplateMatcher_init(assets.matching),
                        HSVMatcher_init(assets.matching_mask),
                        MaskedTemplateMatcher_init(assets.s, assets.s_mask),
                        HashMatcher_init(assets.virtual_camera_off),
                        IF assets.power_off = "missing" THEN "None"
                        ELSE TemplateMatcher_init(assets.power_off)>>)
    IN Out(raised, <<>>, <<>>, raised = "None" /\ assets.power_off # "missing")

\* int(s) for the strings given to it here (no sign, no underscore): decimal
\* digits, white space at the ends ignored; anything else raises ValueError
\* (ok = FALSE).
int_of_str(s) ==
    LET t == Strip(s) IN
    IF t # <<>> /\ AllDigits(t) THEN [ok |-> TRUE, value |-> NumberOf(t)]
    ELSE [ok |-> FALSE, value |-> 0]

\* The counts parsed from the reads, in the order kill, death, special, those
\* that do not parse left out (analyzer.py:327-332).
RECURSIVE ParsedCounts(_)
ParsedCounts(reads) ==
    IF reads = <<>> THEN <<>>
    ELSE LET count == int_of_str(Strip(Head(reads).text)) IN
         (IF count.ok THEN <<count.value>> ELSE <<>>) \o ParsedCounts(Tail(reads))

\* A kill record that reports the counts it could parse and -1 for the others.
kill_record_Partial(has_ocr, rule, reads) ==
    IF ~has_ocr \/ rule = "None" \/ \E i \in DOMAIN reads : ~reads[i].ok
    THEN NoOut
    ELSE Out("None", <<>>,
             [i \in DOMAIN reads |->
                 LET count == int_of_str(Strip(reads[i].text)) IN
                 IF count.ok THEN count.value ELSE -1],
             FALSE)

\* Analyzer.kill_record (analyzer.py:283-335) on an image on which rule_name
\* finds rule ("None": none) and the OCR (when has_ocr) reads reads[1],
\* reads[2], reads[3] in the kill, death and special regions: None (no
\* numbers) without OCR or rule, when a read is an error, or when fewer than
\* three counts parse.
kill_record(has_ocr, rule, reads) ==
    IF ~has_ocr \/ rule = "None" \/ \E i \in DOMAIN reads : ~reads[i].ok
    THEN NoOut
    ELSE IF Len(ParsedCounts(reads)) # 3 THEN NoOut
    ELSE Out("None", <<>>, ParsedCounts(reads), FALSE)

\* ------------------------------------------------------------ battle_result.py, upload_file.py

\* A datetime.datetime, with its microseconds.
PyDatetime(Y, M, D, h, m, s, us) ==
    [type |-> "datetime", year |-> Y, month |-> M, day |-> D, hour |-> h,
     minute |-> m, second |-> s, microsecond |-> us]

\* The dataclass BattleResult (battle_result.py:7-19): start is a datetime
\* or None, the labels are str or None, the counts int or None, rate a
\* rating or NoRate.
BattleResult(start, battle, rule, stage, result, kill, death, special, rate) ==
    [start |-> start, battle |-> battle, rule |-> rule, stage |-> stage,
     result |-> result, kill |-> kill, death |-> death, special |-> special,
     rate |-> rate]

\* What a function that makes an object returns or raises.
Made(raised, value) ==
    [raised |-> raised, rates |-> <<>>, nums |-> <<>>, flag |-> FALSE,
     value |-> value]

\* str.split(sep): the pieces between the separators, at least one.
RECURSIVE Split(_, _)
Split(s, sep) ==
    LET at == {i \in DOMAIN s : s[i] = sep} IN
    IF at = {} THEN <<s>>
    ELSE LET i == CHOOSE k \in at : \A j \in at : k <= j IN
         <<SubSeq(s, 1, i - 1)>> \o Split(SubSeq(s, i + 1, Len(s)), sep)

\* sep.join(parts)
RECURSIVE Join(_, _)
Join(parts, sep) ==
    IF parts = <<>> THEN <<>>
    ELSE IF Len(parts) = 1 THEN parts[1]
    ELSE parts[1] \o <<sep>> \o Join(Tail(parts), sep)

\* The decimal digits of n, with zeros in front up to width w.
RECURSIVE Padded(_, _)
Padded(n, w) ==
    LET d == DigitsOf(n) IN
    IF Len(d) >= w THEN d ELSE <<"0">> \o Padded(n, w - 1)

\* start.strftime(DATETIME_FORMAT) with "%Y-%m-%d %H-%M-%S"
\* (battle_result.py:9, 22-23): the microseconds are not written.
strftime(dt) ==
    Padded(dt.year, 4) \o <<"-">> \o Padded(dt.month, 2) \o <<"-">>
        \o Padded(dt.day, 2) \o <<" ">> \o Padded(dt.hour, 2) \o <<"-">>
        \o Padded(dt.minute, 2) \o <<"-">> \o Padded(dt.second, 2)

\* datetime.strptime(s, DATETIME_FORMAT) (battle_result.py:28-29): a date and
\* a time split by one space, each of three numbers split by "-", within
\* their ranges; anything else raises ValueError (ok = FALSE).
strptime(s) ==
    LET halves == Split(s, " ")
        date == IF Len(halves) = 2 THEN Split(halves[1], "-") ELSE <<>>
        time == IF Len(halves) = 2 THEN Split(halves[2], "-") ELSE <<>>
        number(t, w) == t # <<>> /\ AllDigits(t) /\ Len(t) <= w
        shaped == /\ Len(date) = 3 /\ Len(time) = 3
                  /\ number(date[1], 4) /\ Len(date[1]) = 4
                  /\ \A i \in {2, 3} : number(date[i], 2)
                  /\ \A i \in {1, 2, 3} : number(time[i], 2)
    IN IF ~shaped THEN [ok |-> FALSE, value |-> PyNone]
       ELSE LET dt == PyDatetime(NumberOf(date[1]), NumberOf(date[2]),
                                 NumberOf(date[3]), NumberOf(time[1]),
                                 NumberOf(time[2]), NumberOf(time[3]), 0)
            IN IF /\ dt.month \in 1..12 /\ dt.day \in 1..31
                  /\ dt.hour \in 0..23 /\ dt.minute \in 0..59
                  /\ dt.second \in 0..61
               THEN [ok |-> TRUE, value |-> dt]
               ELSE [ok |-> FALSE, value |-> PyNone]

\* A list that writes str(None) for a label that is not set.
to_list_NoneAsText(self) ==
    LET text(v) == IF v.type = "NoneType" THEN <<"N", "o", "n", "e">> ELSE v.text
        count(v) == IF v.type = "NoneType" THEN <<>> ELSE DigitsOf(v.num)
    IN << IF self.start.type = "NoneType" THEN <<>> ELSE strftime(self.start),
          text(self.battle), text(self.rule), text(self.stage),
          text(self.result), count(self.kill), count(self.death),
          count(self.special),
          IF self.rate = NoRate THEN <<>> ELSE Rate_str(self.rate) >>

\* BattleResult.to_list (battle_result.py:21-24): "" for what is not set (and
\* for an empty label), str() of the counts and of the rating.
to_list(self) ==
    LET text(v) == IF v.type = "NoneType" THEN <<>> ELSE v.text
        count(v) == IF v.type = "NoneType" THEN <<>> ELSE DigitsOf(v.num)
    IN << IF self.start.type = "NoneType" THEN <<>> ELSE strftime(self.start),
          text(self.battle), text(self.rule), text(self.stage),
          text(self.result), count(self.kill), count(self.death),
          count(self.special),
          IF self.rate = NoRate THEN <<>> ELSE Rate_str(self.rate) >>

\* BattleResult.from_list (battle_result.py:26-38) on a list of 9 strs: an
\* empty str gives None; strptime, int and Udemae raise ValueError.
from_list(data) ==
    LET start == IF data[1] = <<>> THEN [ok |-> TRUE, value |-> PyNone]
                 ELSE strptime(data[1])
        label(t) == IF t = <<>> THEN PyNone ELSE PyStr(t)
        count(t) == IF t = <<>> THEN [ok |-> TRUE, value |-> PyNone]
                    ELSE LET n == int_of_str(t) IN
                         [ok |-> n.ok, value |-> PyInt(n.value)]
        kill == count(data[6])
        death == count(data[7])
        special == count(data[8])
        rate == IF data[9] = <<>> THEN Out("None", <<NoRate>>, <<>>, FALSE)
                ELSE RateBase_create(PyStr(data[9]))
    IN IF ~start.ok \/ ~kill.ok \/ ~death.ok \/ ~special.ok
          \/ rate.raised # "None"
       THEN Made("ValueError", PyNone)
       ELSE Made("None",
                 BattleResult(start.value, label(data[2]), label(data[3]),
                              label(data[4]), label(data[5]), kill.value,
                              death.value, special.value, rate.rates[1]))

\* UploadFile.make_file_base_name (upload_file.py:22-24)
make_file_base_name(br) == Join(to_list(br), "_")

\* os.path.basename for paths written with "/".
basename(path) ==
    LET at == {i \in DOMAIN path : path[i] = "/"} IN
    IF at = {} THEN path
    ELSE SubSeq(path, (CHOOSE k \in at : \A j \in at : k >= j) + 1, Len(path))

\* os.path.splitext on a file name: the extension begins at the last dot,
\* unless only dots come before it.
splitext(name) ==
    LET at == {i \in DOMAIN name : name[i] = "."} IN
    IF at = {} THEN <<name, <<>> >>
    ELSE LET i == CHOOSE k \in at : \A j \in at : k >= j IN
         IF \A k \in 1..(i - 1) : name[k] = "." THEN <<name, <<>> >>
         ELSE <<SubSeq(name, 1, i - 1), SubSeq(name, i, Len(name))>>

\* UploadFile.__init__ (upload_file.py:26-33); the value made keeps the
\* metadata beside battle_result.
UploadFile_init(path) ==
    LET file_base_name == splitext(basename(path))[1]
        metadata == Split(file_base_name, "_")
    IN IF Len(metadata) # 9
       THEN Made("ValueError", [metadata |-> metadata, battle_result |-> PyNone])
       ELSE LET made == from_list(metadata) IN
            Made(made.raised,
                 [metadata |-> metadata, battle_result |-> made.value])

\* Uploader.RECORDED_DIR (uploader.py:25), shortened.
RECORDED_DIR == <<"o", "/", "r">>

\* The path Uploader.queue renames the recording to and the UploadFile it
\* makes of it (uploader.py:46-52), for a recording with the given extension.
Uploader_queue(br, extension) ==
    UploadFile_init(RECORDED_DIR \o <<"/">>
                        \o make_file_base_name(br) \o extension)

\* ------------------------------------------------------------ functions alone

\* The floats (in tenths), ratings and strings the functions are applied to.
FloatInputs == {0, 4999, 5000, 20340, 20345, 55000, 55001}

RateInputs == {XP(x) : x \in FloatInputs} \cup {Udemae(i) : i \in {0, 8, 9, 10}}

TextInputs ==
    { <<>>,
      <<"4", "9", "9", ".", "9">>,
      <<"5", "0", "0">>,
      <<"2", "0", "3", "4", ".", "5">>,
      <<" ", "2", "0", "3", "4", ".", "0", " ">>,
      <<"2", "O", "3", "4", ".", "5">>,
      <<"5", "5", "0", "0", ".", "0">>,
      <<"5", "5", "0", "0", ".", "1">>,
      <<"5", "5", "0", "1">>,
      <<"S", "+">>,
      <<"X">> }

\* What the OCR reads in one of the three count regions.
CountReads ==
    {OcrOk(<<"3">>), OcrOk(<<"1", "0", " ">>), OcrOk(<<>>), OcrOk(<<"X">>), OcrErr}

CreateInputs ==
    {PyInt(n) : n \in {100, 2000, 6000}} \cup {PyFloat(x) : x \in FloatInputs}
        \cup {PyStr(s) : s \in TextInputs} \cup {PyNone}

\* The accumulators given to to_list: starts with and without microseconds,
\* labels with and without an underscore, counts, ratings of both variants.
BattleResultInputs ==
    {BattleResult(start, battle, rule, stage, result, kill, death, special, rate) :
        start \in {PyNone, PyDatetime(2024, 1, 5, 9, 3, 0, 0),
                   PyDatetime(2024, 12, 31, 23, 59, 58, 500000)},
        battle \in {PyNone, PyStr(<<"X">>), PyStr(<<"X", "_", "M">>)},
        rule \in {PyNone, PyStr(<<"A", "r", "e", "a">>)},
        stage \in {PyNone, PyStr(<<"M", "&", "S">>)},
        result \in {PyNone, PyStr(<<"W", "I", "N">>)},
        kill \in {PyNone, PyInt(0), PyInt(12)},
        death \in {PyNone, PyInt(3)},
        special \in {PyNone, PyInt(1)},
        rate \in {NoRate, XP(20000), XP(20345), Udemae(9), Udemae(10)}}

\* The extensions of the recordings the backend writes.
ExtensionInputs == {<<".", "m", "k", "v">>, <<".", "m", "p", "4">>}

\* A function and the arguments it is about to be applied to.
Input(fn, args) == [fn |-> fn, args |-> args, applied |-> FALSE, out |-> NoOut]

EvalInputs ==
    {Input(fn, <<a, b>>) : fn \in {"compare_rate", "RateBase.__eq__",
                                    "RateBase.__lt__", "reparse"},
                           a \in RateInputs, b \in RateInputs}
        \cup {Input("RateBase.create", <<v>>) : v \in CreateInputs}
        \cup {Input("XP", <<x>>) : x \in FloatInputs}
        \cup {Input("Udemae", <<s>>) : s \in TextInputs}
        \cup {Input("Analyzer.x_power", <<o, m, r>>) :
                  o \in BOOLEAN, m \in BOOLEAN,
                  r \in {OcrOk(s) : s \in TextInputs} \cup {OcrErr}}
        \cup {Input("Analyzer.kill_record", <<o, rule, <<k, d, s>> >>) :
                  o \in BOOLEAN, rule \in {"None", "Area", "Tricolor"},
                  k \in CountReads, d \in CountReads, s \in CountReads}
        \cup {Input("Analyzer", <<assets>>) :
                  assets \in [matching : AssetStates, matching_mask : AssetStates,
                              s : AssetStates, s_mask : AssetStates,
                              virtual_camera_off : AssetStates,
                              power_off : AssetStates]}
        \cup {Input("Analyzer.battle_finish", <<u, b, t, d>>) :
                  u \in BOOLEAN, b \in BOOLEAN, t \in BOOLEAN, d \in BOOLEAN}
        \cup {Input("BattleResult.from_list", <<r>>) : r \in BattleResultInputs}
        \cup {Input("Uploader.queue", <<r, e>>) :
                  r \in BattleResultInputs, e \in ExtensionInputs}

\* No recorder runs; one function is about to be applied.
EvalInit ==
    /\ feed = "full"
    /\ is_recording_mode = TRUE
    /\ status = OFF
    /\ battle_result = EmptyBattleResult
    /\ record_time = 0
    /\ since_power_check = 0
    /\ power_off_count = 0
    /\ should_resume_recording = "None"
    /\ stopped = FALSE
    /\ alive = FALSE
    /\ frame = NeutralFrame
    /\ current_status = "None"
    /\ checked = FALSE
    /\ handled = "None"
    /\ calls = <<>>
    /\ handoff = <<>>
    /\ negative_checks = 0
    /\ positive_checks = 0
    /\ scenario = Unscripted
    /\ frames_after_stop = 0
    /\ evaluation \in EvalInputs
    /\ transcriber = Transcriber_init
    /\ obs = Obs_init
    /\ seen_on = FALSE

recorder_vars ==
    <<feed, is_recording_mode, status, battle_result, record_time,
      since_power_check, power_off_count, should_resume_recording, stopped,
      alive, frame, current_status, checked, handled, calls, handoff,
      negative_checks, positive_checks, scenario, frames_after_stop, obs,
      seen_on>>

\* The function fn is applied to its arguments and gives out.
Apply(fn, out) ==
    /\ evaluation.fn = fn /\ ~evaluation.applied
    /\ evaluation' = [evaluation EXCEPT !.applied = TRUE, !.out = out]
    /\ UNCHANGED <<recorder_vars, transcriber>>

ApplyCompareRate ==
    /\ evaluation.fn = "compare_rate"
    /\ Apply("compare_rate", compare_rate(evaluation.args[1], evaluation.args[2]))

ApplyEq ==
    /\ evaluation.fn = "RateBase.__eq__"
    /\ Apply("RateBase.__eq__", RateBase_eq(evaluation.args[1], evaluation.args[2]))

ApplyLt ==
    /\ evaluation.fn = "RateBase.__lt__"
    /\ Apply("RateBase.__lt__", RateBase_lt(evaluation.args[1], evaluation.args[2]))

ApplyCreate ==
    /\ evaluation.fn = "RateBase.create"
    /\ Apply("RateBase.create", RateBase_create(evaluation.args[1]))

ApplyXP ==
    /\ evaluation.fn = "XP"
    /\ Apply("XP", XP_init(evaluation.args[1]))

ApplyUdemae ==
    /\ evaluation.fn = "Udemae"
    /\ Apply("Udemae", Udemae_init(evaluation.args[1]))

ApplyXPower ==
    /\ evaluation.fn = "Analyzer.x_power"
    /\ Apply("Analyzer.x_power",
             x_power(evaluation.args[1], evaluation.args[2], evaluation.args[3]))

ApplyReparse ==
    /\ evaluation.fn = "reparse"
    /\ Apply("reparse", Reparsed(evaluation.args[1], evaluation.args[2]))

ApplyBattleFinish ==
    /\ evaluation.fn = "Analyzer.battle_finish"
    /\ Apply("Analyzer.battle_finish",
             Out("None", <<>>, <<>>,
                 battle_finish(evaluation.args[1], evaluation.args[2],
                               evaluation.args[3], evaluation.args[4])))

ApplyKillRecord ==
    /\ evaluation.fn = "Analyzer.kill_record"
    /\ Apply("Analyzer.kill_record",
             kill_record(evaluation.args[1], evaluation.args[2],
                         evaluation.args[3]))

\* from_list(to_list(r))
ApplyFromList ==
    /\ evaluation.fn = "BattleResult.from_list"
    /\ Apply("BattleResult.from_list", from_list(to_list(evaluation.args[1])))

ApplyQueue ==
    /\ evaluation.fn = "Uploader.queue"
    /\ Apply("Uploader.queue",
             Uploader_queue(evaluation.args[1], evaluation.args[2]))

ApplyAnalyzer ==
    /\ evaluation.fn = "Analyzer"
    /\ Apply("Analyzer", Analyzer_init(evaluation.args[1]))

EvalNext ==
    \/ ApplyCompareRate
    \/ ApplyEq
    \/ ApplyLt
    \/ ApplyCreate
    \/ ApplyXP
    \/ ApplyUdemae
    \/ ApplyXPower
    \/ ApplyReparse
    \/ ApplyBattleFinish
    \/ ApplyKillRecord
    \/ ApplyAnalyzer
    \/ ApplyFromList
    \/ ApplyQueue

EvalSpec == EvalInit /\ [][EvalNext]_vars

\* ------------------------------------------------------------ Transcriber

\* The audio items the microphone delivers, and the calls of start().
MaxAudio == 2
MaxStarts == 2

TranscriberInit ==
    /\ feed = "full"
    /\ is_recording_mode = TRUE
    /\ status = OFF
    /\ battle_result = EmptyBattleResult
    /\ record_time = 0
    /\ since_power_check = 0
    /\ power_off_count = 0
    /\ should_resume_recording = "None"
    /\ stopped = FALSE
    /\ alive = FALSE
    /\ frame = NeutralFrame
    /\ current_status = "None"
    /\ checked = FALSE
    /\ handled = "None"
    /\ calls = <<>>
    /\ handoff = <<>>
    /\ negative_checks = 0
    /\ positive_checks = 0
    /\ scenario = Unscripted
    /\ frames_after_stop = 0
    /\ evaluation = NoEvaluation
    /\ transcriber = Transcriber_init
    /\ obs = Obs_init
    /\ seen_on = FALSE

\* Transcriber.start (transcriber.py:99-109): the event and the segments are
\* cleared (the queue is not) and two new threads are started.
Transcriber_start ==
    /\ transcriber.caller = "idle"
    /\ Len(transcriber.recording) < MaxStarts
    /\ transcriber' =
         [transcriber EXCEPT
            !.recording_event = FALSE,
            !.segments = <<>>,
            !.recording = Append(@, TranscriberThread("enter", 0)),
            !.recognition = Append(@, TranscriberThread("while", 0)),
            !.returned = "start"]
    /\ UNCHANGED <<recorder_vars, evaluation>>

\* Transcriber.pause (transcriber.py:111-114)
Transcriber_pause ==
    /\ transcriber.caller = "idle"
    /\ ~transcriber.is_paused
    /\ transcriber' = [transcriber EXCEPT !.is_paused = TRUE, !.returned = "pause"]
    /\ UNCHANGED <<recorder_vars, evaluation>>

\* Transcriber.resume (transcriber.py:116-119)
Transcriber_resume ==
    /\ transcriber.caller = "idle"
    /\ transcriber.is_paused
    /\ transcriber' = [transcriber EXCEPT !.is_paused = FALSE, !.returned = "resume"]
    /\ UNCHANGED <<recorder_vars, evaluation>>

\* Another thread than i is inside the with block of _recording_loop
\* (transcriber.py:67): the one sr.Microphone of the Transcriber is open.
MicrophoneHeld(tr, i) ==
    \E j \in DOMAIN tr.recording :
        j # i /\ tr.recording[j].pc \in {"while", "listen", "put"}

\* A step of a thread running _recording_loop (transcriber.py:66-83): the
\* entry into the microphone's context (67-68; the library either opens an
\* already open microphone again or raises, which ends the thread), the loop
\* condition (69), the pause test and the listening (70-76; a listening that
\* times out gives None), the put (83).
recording_loop ==
    /\ \E i \in DOMAIN transcriber.recording :
         LET t == transcriber.recording[i] IN
         \/ /\ t.pc = "enter"
            /\ transcriber' = [transcriber EXCEPT !.recording[i].pc = "while"]
         \/ /\ t.pc = "enter"
            /\ MicrophoneHeld(transcriber, i)
            /\ transcriber' = [transcriber EXCEPT !.recording[i].pc = "done"]
         \/ /\ t.pc = "while"
            /\ transcriber.recording_event
            /\ transcriber' = [transcriber EXCEPT !.recording[i].pc = "done"]
         \/ /\ t.pc = "while"
            /\ ~transcriber.recording_event /\ ~transcriber.is_paused
            /\ transcriber' = [transcriber EXCEPT !.recording[i].pc = "listen"]
         \/ /\ t.pc = "listen"
            /\ transcriber' = [transcriber EXCEPT !.recording[i].pc = "while"]
         \/ /\ t.pc = "listen"
            /\ transcriber.captured < MaxAudio
            /\ transcriber' =
                 [transcriber EXCEPT
                    !.captured = @ + 1,
                    !.sessions = Append(@, Len(transcriber.recording)),
                    !.recording[i] = TranscriberThread("put", transcriber.captured + 1)]
         \/ /\ t.pc = "put"
            /\ transcriber' =
                 [transcriber EXCEPT
                    !.audio_queue = Append(@, t.item),
                    !.recording[i] = TranscriberThread("while", 0)]
    /\ UNCHANGED <<recorder_vars, evaluation>>

\* transcriber.py:86: while not self._recording_event.is_set()
RecognitionEnds(tr) == tr.recording_event

\* A step of a thread running _recognition_loop (transcriber.py:85-97): the
\* loop condition (86), the test of the queue (87-89), the get (91; it raises
\* queue.Empty, which ends the thread, when another thread emptied the queue
\* in between), the recognition and the append (92-97).
recognition_loop ==
    /\ \E i \in DOMAIN transcriber.recognition :
         LET t == transcriber.recognition[i] IN
         \/ /\ t.pc = "while"
            /\ RecognitionEnds(transcriber)
            /\ transcriber' = [transcriber EXCEPT !.recognition[i].pc = "done"]
         \/ /\ t.pc = "while"
            /\ ~RecognitionEnds(transcriber)
            /\ transcriber.audio_queue # <<>>
            /\ transcriber' = [transcriber EXCEPT !.recognition[i].pc = "get"]
         \/ /\ t.pc = "get"
            /\ transcriber' =
                 IF transcriber.audio_queue = <<>>
                 THEN [transcriber EXCEPT !.recognition[i].pc = "done"]
                 ELSE [transcriber EXCEPT
                         !.audio_queue = Tail(@),
                         !.recognition[i] =
                             TranscriberThread("recognize",
                                               Head(transcriber.audio_queue))]
         \/ /\ t.pc = "recognize"
            /\ \E ok \in BOOLEAN :
                 transcriber' =
                   [transcriber EXCEPT
                      !.segments = IF ok THEN Append(@, t.item) ELSE @,
                      !.recognition[i] = TranscriberThread("while", 0)]
    /\ UNCHANGED <<recorder_vars, evaluation>>

\* The thread a join waits for has ended (or was never created).
Joined(threads) ==
    IF threads = <<>> THEN TRUE ELSE threads[Len(threads)].pc = "done"

\* Transcriber.stop (transcriber.py:121-127): the event is set (122), then
\* the caller waits for _recording_thread (124-125) and for
\* _recognition_thread (126-127).
Transcriber_stop ==
    /\ transcriber.caller = "idle"
    /\ transcriber' = [transcriber EXCEPT !.recording_event = TRUE,
                                          !.caller = "join_recording",
                                          !.call = "stop",
                                          !.returned = "None"]
    /\ UNCHANGED <<recorder_vars, evaluation>>

\* Transcriber.get_srt (transcriber.py:129-140) begins with stop() (130).
Transcriber_get_srt ==
    /\ transcriber.caller = "idle"
    /\ transcriber.recording # <<>>
    /\ transcriber' = [transcriber EXCEPT !.recording_event = TRUE,
                                          !.caller = "join_recording",
                                          !.call = "get_srt",
                                          !.returned = "None"]
    /\ UNCHANGED <<recorder_vars, evaluation>>

JoinRecording ==
    /\ transcriber.caller = "join_recording"
    /\ Joined(transcriber.recording)
    /\ transcriber' = [transcriber EXCEPT !.caller = "join_recognition"]
    /\ UNCHANGED <<recorder_vars, evaluation>>

JoinRecognition ==
    /\ transcriber.caller = "join_recognition"
    /\ Joined(transcriber.recognition)
    /\ transcriber' =
         [transcriber EXCEPT
            !.caller = "idle",
            !.returned = transcriber.call,
            \* transcriber.py:132-140: get_srt formats the segments
            !.transcript = IF transcriber.call = "get_srt"
                           THEN transcriber.segments ELSE @]
    /\ UNCHANGED <<recorder_vars, evaluation>>

TranscriberNext ==
    \/ Transcriber_start
    \/ Transcriber_pause
    \/ Transcriber_resume
    \/ recording_loop
    \/ recognition_loop
    \/ Transcriber_stop
    \/ Transcriber_get_srt
    \/ JoinRecording
    \/ JoinRecognition

TranscriberSpec == TranscriberInit /\ [][TranscriberNext]_vars

\* ------------------------------------------------------------ properties

\* The latest step made the call c.
Called(c) == \E i \in 1..Len(calls) : calls[i] = c

\* How often the latest step made the call c.
TimesCalled(c) == Cardinality({i \in 1..Len(calls) : calls[i] = c})

\* C1 (as stated): once a recording has started, a frame processed more than
\* 600 seconds after its start leaves the state WAIT, whatever the frames
\* showed.  A recording in progress is in RECORD or PAUSE and record_time is
\* the time since its start; the formula speaks of the frames that reach the
\* handler of RECORD or PAUSE.
C1_TimeoutReturnsToWait ==
    (handled \in {RECORD, PAUSE} /\ record_time > RecordTimeout)
        => status = WAIT

\* C2 (as stated): an iteration that starts in OFF and whose power supervision
\* leaves WAIT has seen at least three power checks in a row, its own
\* included, that read no power-off.
C2_WaitOnlyAfterThreeNegativeChecks ==
    (current_status = OFF /\ handled = WAIT)
        => negative_checks >= PowerOffThreshold

\* C3: when the record handler processes a frame with the battle-abort signal
\* less than 90 seconds after the recording started, it cancels the
\* recording: _cancel_record runs, nothing is handed to the upload queue, the
\* accumulator is empty and the state is WAIT.
C3_EarlyAbortCancels ==
    (handled = RECORD /\ frame.battle_abort /\ record_time < AbortWindow)
        => /\ status = WAIT
           /\ battle_result = EmptyBattleResult
           /\ Called("_cancel_record")
           /\ Called("BattleResult")
           /\ handoff = <<>>
           /\ ~Called("Uploader.queue")

C3_Witness ==
    /\ handled = RECORD /\ frame.battle_abort /\ record_time < AbortWindow
    /\ status = WAIT
    /\ Called("remove_file")

\* C4: when the record handler processes a frame with the battle-abort signal
\* 90 seconds or more after the recording started, _cancel_record does not
\* run; unless the same frame ends the recording through _stop_record (the
\* timeout or the stop signal), the backend is not told to stop, the state
\* stays RECORD or PAUSE and the accumulator keeps its start time.
C4_LateAbortIgnored ==
    (handled = RECORD /\ frame.battle_abort /\ record_time >= AbortWindow)
        => /\ ~Called("_cancel_record")
           /\ ~Called("remove_file")
           /\ \/ Called("_stop_record")
              \/ /\ status \in {RECORD, PAUSE}
                 /\ ~Called("obs.stop_record")
                 /\ battle_result.start # NoTime

C4_Witness ==
    /\ handled = RECORD /\ frame.battle_abort /\ record_time = AbortWindow
    /\ status = RECORD

\* C5 (as stated): an iteration that starts in PAUSE ends in PAUSE or RECORD.
C5_PauseOnlyToPauseOrRecord ==
    current_status = PAUSE => status \in {PAUSE, RECORD}

\* C5 (amended): an iteration that starts in PAUSE ends in PAUSE, RECORD or
\* OFF, never in WAIT.  It ends in OFF exactly when the power supervision
\* left OFF, which it does only on a power check that is the third in a row
\* to read power-off or that reads the virtual-camera placeholder; it ends in
\* RECORD only when the pause handler resumed the recording.
C5_PauseLeavesByResumeOrPowerSupervision ==
    current_status = PAUSE
        => /\ status \in {PAUSE, RECORD, OFF}
           /\ (status = OFF) = (handled = OFF)
           /\ handled = OFF
                => /\ checked
                   /\ \/ positive_checks >= PowerOffThreshold
                      \/ frame.virtual_camera_off
           /\ status = RECORD
                => handled = PAUSE /\ Called("obs.resume_record")

C5_Witness ==
    /\ current_status = PAUSE /\ status = OFF
    /\ positive_checks >= PowerOffThreshold
    /\ ~frame.virtual_camera_off

\* C8: when the wait handler processes a frame with the schedule-change
\* signal while the accumulator holds a rating or a start time, the
\* accumulator is empty afterwards, the state is WAIT and nothing is handed
\* to the upload queue.
C8_ScheduleChangeClearsAccumulator ==
    [][(/\ handled' = WAIT /\ frame'.change_schedule
        /\ (battle_result.rate # NoRate \/ battle_result.start # NoTime))
          => /\ Called("BattleResult")'
             /\ battle_result' = EmptyBattleResult
             /\ status' = WAIT
             /\ handoff' = <<>>]_vars

C8_Witness ==
    /\ current_status = WAIT /\ handled = WAIT /\ frame.change_schedule
    /\ Called("BattleResult")
    /\ battle_result = EmptyBattleResult
    /\ status = WAIT

\* C9: a step invokes the power-off callback at most once, and only an
\* iteration that starts in a state other than OFF and ends in OFF; an
\* iteration that starts in OFF never invokes it.
C9_CallbackOncePerEdge ==
    /\ TimesCalled("power_off_callback") <= 1
    /\ Called("power_off_callback")
         => /\ current_status \in {WAIT, RECORD, PAUSE}
            /\ handled = OFF
            /\ status = OFF

C9_Witness ==
    /\ Called("power_off_callback")
    /\ current_status = RECORD
    /\ status = OFF

\* C10: the power supervision takes a state other than OFF to OFF on a frame
\* that is not the virtual-camera placeholder only when the power check is at
\* least the third in a row to read power-off, and then invokes the callback;
\* after a check that is the first or second in a row to read power-off it
\* leaves such a state as it was; a check that reads no power-off sets
\* _power_off_count to zero.
C10_PowerOffDebounce ==
    /\ (current_status \in {WAIT, RECORD, PAUSE} /\ handled = OFF
        /\ ~frame.virtual_camera_off)
         => /\ checked
            /\ frame.power_off
            /\ positive_checks >= PowerOffThreshold
    /\ (current_status \in {WAIT, RECORD, PAUSE} /\ checked
        /\ frame.power_off /\ positive_checks < PowerOffThreshold
        /\ ~frame.virtual_camera_off)
         => handled = current_status
    /\ (checked /\ ~frame.power_off) => power_off_count = 0

C10_Witness ==
    /\ current_status = WAIT /\ handled = OFF
    /\ ~frame.virtual_camera_off
    /\ positive_checks = PowerOffThreshold

\* The stored resume predicate returns false on the latest frame.
PredicateFalse ==
    /\ should_resume_recording # "None"
    /\ ~ResumePredicate(should_resume_recording, frame)

\* The loop of run is running.
Running == alive /\ ~stopped

\* The latest iteration told the backend to resume and left RECORD.
Resumed ==
    /\ current_status = PAUSE
    /\ status = RECORD
    /\ Called("obs.resume_record")

\* C6 (as stated): if the recorder is in PAUSE and, while frames keep
\* arriving, from some frame on the stored resume predicate returns false,
\* then eventually the backend is told to resume and the state is RECORD.
C6_PauseEventuallyResumes ==
    [](status = PAUSE
         => ((<>[]PredicateFalse /\ []Running) => <>Resumed))

\* C6 (amended): the same, provided the power supervision never takes the
\* state to OFF.
C6_PauseResumesUnlessPoweredOff ==
    [](status = PAUSE
         => ((<>[]PredicateFalse /\ []Running /\ [](status # OFF))
               => <>Resumed))

C6_Witness ==
    /\ Resumed
    /\ handled = PAUSE
    /\ PredicateFalse

\* C7 (as stated): when the script "stated" has been fed, the upload queue
\* has received exactly one accumulator; its outcome is WIN and its start is
\* the time stored when the matching-start frame was processed.
C7_StatedScriptHandsOffOnce ==
    (ScriptDone /\ scenario.name = "stated")
        => /\ Len(scenario.queued) = 1
           /\ scenario.queued[1].result = "WIN"
           /\ scenario.queued[1].start = scenario.matched_at

\* C7 (amended): with one more frame showing WIN fed before the stop signal,
\* so that the record handler reads the outcome, nothing is handed off before
\* the stop-signal frame; on it _stop_record runs and, unless the backend's
\* stop_record answers with an error, the upload queue receives exactly one
\* accumulator, with outcome WIN and with the start time stored when the
\* matching-start frame was processed; the state is WAIT unless the queue
\* raised and ended run.
C7_OutcomeReadScriptHandsOffOnce ==
    scenario.name = "outcome_read"
        => /\ ~ScriptDone => scenario.queued = <<>>
           /\ ScriptDone
                => /\ alive => status = WAIT
                   /\ Called("_stop_record")
                   /\ scenario.matched_at # NoTime
                   /\ \/ /\ ~Called("Uploader.queue")
                         /\ scenario.queued = <<>>
                      \/ /\ Called("Uploader.queue")
                         /\ Len(scenario.queued) = 1
                         /\ scenario.queued[1].result = "WIN"
                         /\ scenario.queued[1].start = scenario.matched_at

C7_Witness ==
    /\ ScriptDone /\ scenario.name = "outcome_read"
    /\ Len(scenario.queued) = 1
    /\ scenario.queued[1].result = "WIN"
    /\ scenario.queued[1].start = scenario.matched_at

\* C11: after every iteration that ran _stop_record, whatever sub-step of it
\* failed, the accumulator is empty, the state is WAIT and run has not ended.
C11_FinalizationFailureKeepsLoop ==
    Called("_stop_record")
        => /\ battle_result = EmptyBattleResult
           /\ status = WAIT
           /\ alive

\* C12: in an iteration in which obs.stop_record answered with an error,
\* during _cancel_record or _stop_record, stop_record was requested once, no
\* file was removed, nothing was handed to the upload queue, the accumulator
\* is empty, and the state is WAIT with run still going.
C12_StopErrorResetsAndWaits ==
    Called("stop_record.Err")
        => /\ Called("_cancel_record") \/ Called("_stop_record")
           /\ TimesCalled("obs.stop_record") = 1
           /\ ~Called("remove_file")
           /\ ~Called("Uploader.queue")
           /\ handoff = <<>>
           /\ Called("BattleResult")
           /\ battle_result = EmptyBattleResult
           /\ status = WAIT
           /\ alive

C12_Witness ==
    /\ Called("stop_record.Err") /\ Called("_cancel_record")
    /\ current_status = RECORD /\ status = WAIT
    /\ battle_result = EmptyBattleResult

\* The latest step called a and, later, b.
CalledBefore(a, b) ==
    \E i, j \in DOMAIN calls : i < j /\ calls[i] = a /\ calls[j] = b

\* C13: in every finalization (stop signal or timeout) with a transcriber, the
\* transcriber is stopped, then its transcript is retrieved, and only then is
\* stop_record sent to the backend.
C13_TranscriptBeforeBackendStop ==
    (Called("_stop_record") /\ has_transcriber)
        => /\ CalledBefore("_stop_record", "transcriber.stop")
           /\ CalledBefore("transcriber.stop", "transcriber.get_srt")
           /\ \A j \in DOMAIN calls :
                calls[j] = "obs.stop_record"
                    => \E i, k \in 1..(j - 1) :
                         /\ i < k
                         /\ calls[i] = "transcriber.stop"
                         /\ calls[k] = "transcriber.get_srt"

C13_Witness ==
    /\ Called("_stop_record") /\ has_transcriber
    /\ record_time > RecordTimeout
    /\ CalledBefore("transcriber.get_srt", "obs.stop_record")
    /\ Called("Uploader.queue")

\* C14 (as stated): every power check on a frame that is the virtual-camera
\* placeholder requests obs.start_virtual_cam and leaves the state OFF.
C14_PlaceholderRestartsCamera ==
    (checked /\ frame.virtual_camera_off)
        => Called("obs.start_virtual_cam") /\ handled = OFF /\ status = OFF

\* The power check of the latest iteration read the placeholder without
\* confirming a power-off.
PlaceholderSeen ==
    checked /\ frame.virtual_camera_off /\ ~PowerOffConfirmed(power_off_count)

\* C14 (amended): a power check on a placeholder frame that does not confirm a
\* power-off (fewer than 3 consecutive power-off readings) requests
\* obs.start_virtual_cam once and leaves the state OFF, no handler running; a
\* check that confirms a power-off leaves the state OFF without the request.
\* If the request answers with an error the stop flag is set, and the next
\* step of run is its exit: no further frame is processed.
C14_PlaceholderRestartsCameraUnlessPowerOff ==
    /\ [](PlaceholderSeen
            => /\ TimesCalled("obs.start_virtual_cam") = 1
               /\ handled = OFF /\ status = OFF
               /\ Called("start_virtual_cam.Err") => stopped)
    /\ []((checked /\ PowerOffConfirmed(power_off_count))
            => ~Called("obs.start_virtual_cam") /\ status = OFF)
    /\ [][Called("start_virtual_cam.Err")
            => (~alive' /\ current_status' = "None" /\ calls' = ReleaseCalls)]_vars

C14_Witness ==
    /\ PlaceholderSeen /\ current_status = RECORD
    /\ Called("start_virtual_cam.Err") /\ stopped /\ alive /\ status = OFF

\* C15: once the stop flag is set, by stop() or by the backend-disconnect
\* notification, between iterations or at any point of one, capture.read()
\* delivers at most one more frame; the step that follows a state with the
\* flag set is the exit of run.
C15_StopWithinOneFrame ==
    /\ [](frames_after_stop <= 1)
    /\ [][stopped => (~alive' /\ calls' = ReleaseCalls
                      /\ frames_after_stop' = frames_after_stop)]_vars

C15_Witness ==
    /\ stopped /\ alive /\ frames_after_stop = 1
    /\ current_status = RECORD /\ status = PAUSE /\ Called("obs.pause_record")

\* C16: however run ended (stop flag seen, capture.read() failed, or an
\* exception raised while a frame was processed), its last two calls released
\* the frame source and then closed the backend connection, once each.
C16_ReleaseOnEveryExit ==
    ~alive
        => /\ Len(calls) >= 2
           /\ calls[Len(calls) - 1] = "capture.release"
           /\ calls[Len(calls)] = "obs.close"
           /\ TimesCalled("capture.release") = 1
           /\ TimesCalled("obs.close") = 1

C16_Witness ==
    /\ ~alive /\ ~stopped
    /\ current_status = RECORD /\ handled = RECORD
    /\ CalledBefore("Uploader.queue", "capture.release")
    /\ CalledBefore("capture.release", "obs.close")

\* C17: an iteration changes the state at most once: the power supervision
\* and the handler it dispatches to do not both change it on one frame.
C17_OneTransitionPerIteration ==
    current_status # "None"
        => (handled = current_status \/ status = handled)

\* C18: whenever the power supervision takes the state from OFF to WAIT, the
\* accumulator it leaves to the WAIT handler is empty.
C18_AccumulatorEmptyOnLeavingOff ==
    [][(status = OFF /\ current_status' = OFF /\ handled' = WAIT)
          => battle_result = EmptyBattleResult]_vars

\* C19: in recording mode the WAIT handler leaves for RECORD only on a frame
\* on which the battle-start signal fires while the accumulator already held a
\* start time when the frame arrived (which the frame leaves as it is); on a
\* frame that arrives while the start time is unset the battle-start signal is
\* not evaluated and the state stays WAIT, whatever the frame shows.
C19_RecordOnlyAfterMatchingStart ==
    [][(is_recording_mode /\ handled' = WAIT)
          => /\ status' = RECORD
                  => /\ battle_result.start # NoTime
                     /\ battle_result'.start = battle_result.start
                     /\ frame'.battle_start
                     /\ Called("analyzer.battle_start")'
                     /\ Called("obs.start_record")'
             /\ battle_result.start = NoTime
                  => /\ ~Called("analyzer.battle_start")'
                     /\ status' = WAIT]_vars

C19_Witness ==
    /\ is_recording_mode /\ handled = WAIT /\ status = WAIT
    /\ frame.battle_start /\ ~frame.change_schedule
    /\ ~Called("analyzer.battle_start")
    /\ battle_result.start # NoTime

\* C20: every accumulator that _stop_record hands to the upload queue has a
\* start time: the one it held (the matching-start time) when it held one;
\* otherwise the time parsed from the name of the output file, or, when the
\* name cannot be parsed, the current time.
C20_HandoffHasStart ==
    [][\A i \in DOMAIN handoff' :
          LET h == handoff'[i] IN
          /\ h.start # NoTime
          /\ battle_result.start # NoTime
               => /\ h.start = battle_result.start
                  /\ ~Called("Obs.extract_start_datetime")'
          /\ battle_result.start = NoTime
               => /\ Called("Obs.extract_start_datetime")'
                  /\ IF Called("datetime.now")'
                     THEN h.start \in Stamps
                     ELSE h.start \in PathStamps]_vars

C20_Witness ==
    /\ handoff # <<>>
    /\ CalledBefore("Obs.extract_start_datetime", "datetime.now")
    /\ CalledBefore("datetime.now", "Uploader.queue")
    /\ handoff[1].start \in Stamps
    /\ handoff[1].result = "WIN"

\* C21: in WAIT, on every frame (that shows no schedule change) whose rating
\* reading is present and differs from the stored rating, the stored rating
\* becomes that reading, whether or not a start time is stored; a reading
\* equal to the stored rating leaves the stored rating as it is.
C21_RatingFollowsReading ==
    [][(handled' = WAIT /\ ~frame'.change_schedule /\ frame'.rate # NoRate)
          => battle_result'.rate = frame'.rate]_vars

\* The function fn has been applied.
Applied(fn) == evaluation.fn = fn /\ evaluation.applied

\* C22: comparing an XP with an Udemae, in either order, through
\* compare_rate, == or <, raises TypeError and returns no result.
C22_CrossVariantComparisonRaises ==
    \A fn \in {"compare_rate", "RateBase.__eq__", "RateBase.__lt__"} :
        (Applied(fn) /\ evaluation.args[1].kind # evaluation.args[2].kind)
            => /\ evaluation.out.raised = "TypeError"
               /\ evaluation.out.nums = <<>>
               /\ evaluation.out.flag = FALSE

C22_Witness ==
    /\ Applied("RateBase.__lt__")
    /\ evaluation.args = <<Udemae(9), XP(20345)>>
    /\ evaluation.out.raised = "TypeError"

\* C23: no XP with a value below 500 or above 5500 can be created: x_power,
\* the XP constructor and RateBase.create all reject such a value.
C23_OutOfRangeNeverCreated ==
    \A fn \in {"Analyzer.x_power", "XP", "RateBase.create"} :
        Applied(fn)
            => \A i \in DOMAIN evaluation.out.rates :
                  LET r == evaluation.out.rates[i] IN
                  r.kind = "XP" => (r.value >= 5000 /\ r.value <= 55000)

C25_StopDrainsAndJoins ==
    [][transcriber.returned = "stop"
          => /\ Joined(transcriber.recording)
             /\ Joined(transcriber.recognition)
             /\ transcriber.audio_queue = <<>>
             /\ transcriber'.returned # "start"
                  => transcriber'.segments = transcriber.segments]_vars

\* C26 (as stated): battle_finish is true exactly when the flat-colour check
\* on the sentinel region fails, the region is not black, and the finish-text
\* and finish-band matches both hold.
C26_FinishWhenNotFlat ==
    Applied("Analyzer.battle_finish")
        => (evaluation.out.flag
              <=> (/\ ~evaluation.args[1] /\ ~evaluation.args[2]
                   /\ evaluation.args[3] /\ evaluation.args[4]))

\* C26 (amended): battle_finish is true exactly when the flat-colour check on
\* the sentinel region succeeds (the region is of one colour), the region is
\* not black, and the finish-text and finish-band matches both hold.
C26_FinishWhenFlat ==
    Applied("Analyzer.battle_finish")
        => (evaluation.out.flag
              <=> (/\ evaluation.args[1] /\ ~evaluation.args[2]
                   /\ evaluation.args[3] /\ evaluation.args[4]))

C26_Witness ==
    /\ Applied("Analyzer.battle_finish")
    /\ evaluation.args = <<TRUE, FALSE, TRUE, TRUE>>
    /\ evaluation.out.flag

\* C27: kill_record returns the (kill, death, special) triple only when the
\* rule is known and all three OCR reads succeed and parse as integers, and
\* nothing otherwise; so the accumulator that _stop_record builds from its
\* answer (recorder.py:328-329) has kill, death and special all set or all
\* unset.
C27_KillRecordAllOrNothing ==
    Applied("Analyzer.kill_record")
        => LET has_ocr == evaluation.args[1]
               rule == evaluation.args[2]
               reads == evaluation.args[3]
               counts == evaluation.out.nums
               complete == /\ has_ocr /\ rule # "None"
                           /\ \A i \in 1..3 :
                                 /\ reads[i].ok
                                 /\ int_of_str(reads[i].text).ok
               queued == Finalized([EmptyBattleResult EXCEPT !.start = 1],
                                   NoTime, 1,
                                   [battle |-> "None", rule |-> rule,
                                    stage |-> "None", kill_record |-> counts])
           IN /\ IF complete
                 THEN counts = [i \in 1..3 |-> int_of_str(reads[i].text).value]
                 ELSE counts = <<>>
              /\ \/ queued.kill = -1 /\ queued.death = -1 /\ queued.special = -1
                 \/ queued.kill # -1 /\ queued.death # -1 /\ queued.special # -1

C27_Witness ==
    /\ Applied("Analyzer.kill_record")
    /\ evaluation.args = <<TRUE, "Area",
                           <<OcrOk(<<"1", "0", " ">>), OcrOk(<<"X">>), OcrOk(<<"3">>)>> >>
    /\ evaluation.out.nums = <<>>

C29_StopOnlyWithOutcome ==
    [][(handled' = RECORD /\ ~IsTimeout(record_time))
          => /\ battle_result.result = "None"
                  => /\ ~Called("_stop_record")'
                     /\ handoff' = <<>>
                     /\ status' = PAUSE => should_resume_recording' = "finish"
                     /\ status' = WAIT => Called("_cancel_record")'
             /\ \A i \in DOMAIN handoff' : handoff'[i].result # "None"]_vars

C29_Witness ==
    /\ handled = RECORD /\ status = RECORD
    /\ ~IsTimeout(record_time)
    /\ battle_result.result = "None"
    /\ frame.battle_stop /\ frame.loading
    /\ calls = <<>>

\* C30: once a start time is stored in the accumulator, no frame processed
\* in WAIT, RECORD or PAUSE changes it, until a schedule change, a
\* cancellation or a finalization replaces the accumulator by an empty one;
\* a handoff carries exactly the stored start time.
C30_StartKeptUntilReset ==
    [][(handled' \in {WAIT, RECORD, PAUSE} /\ battle_result.start # NoTime)
          => /\ \/ battle_result'.start = battle_result.start
                \/ /\ battle_result' = EmptyBattleResult
                   /\ Called("BattleResult")'
                   /\ \/ handled' = WAIT /\ frame'.change_schedule
                      \/ Called("_cancel_record")'
                      \/ Called("_stop_record")'
             /\ \A i \in DOMAIN handoff' :
                    handoff'[i].start = battle_result.start]_vars

C30_Witness ==
    /\ handled = WAIT /\ status = WAIT
    /\ frame.matching_start /\ ~frame.change_schedule
    /\ battle_result.start = 1
    /\ calls = <<"analyzer.battle_start">>


\* C31: in WAIT with a stored rating of one variant and no start time stored,
\* handling a frame (showing no schedule change) whose rating reading is of
\* the other variant leaves the run loop alive, stores the reading in place
\* of the stored rating and leaves the state WAIT.
C31_OtherVariantReadingKeepsLoop ==
    [][(/\ handled' = WAIT
        /\ battle_result.start = NoTime
        /\ battle_result.rate # NoRate
        /\ ~frame'.change_schedule
        /\ frame'.rate # NoRate
        /\ frame'.rate.kind # battle_result.rate.kind)
          => /\ alive'
             /\ battle_result'.rate = frame'.rate
             /\ status' = WAIT]_vars


\* C32: in every reachable state where the recorder state is PAUSE a resume
\* predicate is stored, and no frame handled in PAUSE raises the
\* missing-predicate error.
C32_PauseHasPredicate ==
    /\ status = PAUSE => should_resume_recording # "None"
    /\ (current_status = PAUSE /\ handled = PAUSE)
          => should_resume_recording # "None"

C32_Witness ==
    /\ status = PAUSE
    /\ handled = PAUSE
    /\ should_resume_recording = "finish"
    /\ alive


\* C33: with a backend whose requests succeed, whenever the recorder state is
\* OFF or WAIT at the end of an iteration the backend is not recording.
C33_IdleMeansNotRecording ==
    (alive /\ status \in {OFF, WAIT}) => ~obs.active

\* C34: with a backend whose requests succeed, whenever the recorder state is
\* RECORD the backend recording is active and not paused, and whenever it is
\* PAUSE the backend recording is paused.
C34_BackendFollowsState ==
    /\ (alive /\ status = RECORD) => (obs.active /\ ~obs.paused)
    /\ (alive /\ status = PAUSE) => (obs.active /\ obs.paused)


\* C35: the power-off callback is invoked only after the console has been
\* seen on: between the start of run (or the previous entry into OFF) and any
\* invocation of the callback, a power check read no power-off.
C35_CallbackAfterSeenOn ==
    [][InCalls(calls', "power_off_callback") => seen_on]_vars


\* The threads of a list that have not ended.
AliveThreads(threads) == {i \in DOMAIN threads : threads[i].pc # "done"}

\* C36: for every sequence of start and stop calls, at most one thread
\* running _recording_loop and at most one running _recognition_loop are
\* alive at any time.
C36_OneThreadOfEachKind ==
    /\ Cardinality(AliveThreads(transcriber.recording)) <= 1
    /\ Cardinality(AliveThreads(transcriber.recognition)) <= 1


\* C37: the transcript returned by the next get_srt() after a start() holds
\* only segments of audio captured after that start().
C37_TranscriptOfThisSession ==
    transcriber.returned = "get_srt"
        => \A k \in DOMAIN transcriber.transcript :
              transcriber.sessions[transcriber.transcript[k]]
                  = Len(transcriber.recording)


HasUnderscore(v) ==
    v.type = "str" /\ \E i \in DOMAIN v.text : v.text[i] = "_"

\* The start has whole-second precision and no label holds an underscore.
Storable(r) ==
    /\ r.start.type = "datetime" => r.start.microsecond = 0
    /\ \A v \in {r.battle, r.rule, r.stage, r.result} : ~HasUnderscore(v)

====
